---- MODULE Spec2Model ----
(***************************************************************************)
(* Whispers: end-to-end encrypted messages relayed as push notifications.  *)
(*                                                                         *)
(* The module models                                                       *)
(*   - the client's key material, encryptMessage / decryptMessage and the  *)
(*     notification listener that stores a received message (SpecCipher);  *)
(*   - the relay's /register and /send handlers with the request           *)
(*     authentication of verifyRequestSignature (SpecRelay).               *)
(*                                                                         *)
(* Cryptography is symbolic: a key pair is named by its seed, a signature  *)
(* is the pair (signing public key, signed bytes), an AEAD ciphertext is   *)
(* the triple (key, nonce, plaintext), and a byte string carries the bit   *)
(* that was flipped in transit, if any (flip = 0: intact).                 *)
(***************************************************************************)
EXTENDS Integers, Sequences, FiniteSets, TLC

VARIABLES
    me,             \* seed of the key pair held in this device's secure store
    net,            \* the push notification in flight to this device, or NoNotification
    lastDecrypt,    \* what the last decryptMessage call did, or NoCall
    conversations,  \* the device's conversations table
    messages,       \* the device's messages table (rows in insertion order)
    now,            \* the relay's clock, Date.now() in ms
    recipients,     \* the relay's recipients table: recipient_id -> row
    deliveries,     \* the calls made to expo.sendPushNotificationsAsync, in order
    lastSend,       \* the last /send request handled and its response, or NoCall
    lastCleanup,    \* the last /cleanup request handled and its response, or NoCall
    pending,        \* the relay's /send handlers waiting for Expo's answer
    generated,      \* how many key pairs generateKeyPair has made on this device
    returned,       \* the identities getKeys returned since the last regeneration
    lastKeys,       \* the last call of getKeys and what it returned, or NoCall
    pushToken,      \* the app's SecureStore item PUSH_TOKEN, or NoToken
    sendLog,        \* what the app's last sendMessage did, or NoCall
    deviceTime,     \* the device's clock, Date.now() in ms
    shakeCount,     \* AppContent's ref shakeCount
    lastShakeTime,  \* AppContent's ref lastShakeTime
    shakeTimes,     \* the times of the last shakes handleShake counted, in order
    sinceReset,     \* how many shakes were counted since the counter was due a reset
    subscribed,     \* the accelerometer listeners: showEmergency in each one's handleShake
    subscription,   \* useShakeDetection's state subscription (the listener it names)
    captured,       \* the subscription that the pending effect cleanup removes
    showEmergency,  \* AppContent's state showEmergency
    countdown,      \* EmergencyCountdown's state countdown
    interval,       \* when EmergencyCountdown's setInterval timer fires next, or NoTimer
    activations,    \* how each showing of the countdown went so far, in order
    completing,     \* the activations whose handleComplete waits to call clearKeys
    wipeLog,        \* what the runs of handleComplete did, in order
    listener,       \* the notification listener waiting at its getKeys, or NoCall
    foreignKeys,    \* PRAGMA foreign_keys of the connection to app.db
    lastDelete,     \* what the last deleteConversation did, or NoCall
    regenerating,   \* how far the running handleRegenerateKeys has come, or NoCall
    secureStore,    \* the SecureStore items PUBLIC_KEY and PRIVATE_KEY, each naming its pair
    keyCalls,       \* the calls of getKeys and regenerateKeys that are under way
    lastScan        \* what the last handleBarCodeScanned was given and did, or NoCall

vars == <<me, net, lastDecrypt, conversations, messages,
          now, recipients, deliveries, lastSend, lastCleanup,
          pending, generated, returned, lastKeys, pushToken, sendLog,
          deviceTime, shakeCount, lastShakeTime, shakeTimes, sinceReset,
          subscribed, subscription, captured,
          showEmergency, countdown, interval, activations,
          completing, wipeLog, listener, foreignKeys, lastDelete,
          regenerating, secureStore, keyCalls, lastScan>>

clientVars == <<me, net, lastDecrypt, conversations, messages>>
relayVars == <<now, recipients, deliveries, lastSend, lastCleanup>>

\* The state of the parts that the specifications below add one by one.
keyVars == <<generated, returned, lastKeys>>
sendVars == <<pushToken, sendLog>>
shakeVars == <<deviceTime, shakeCount, lastShakeTime, shakeTimes, sinceReset,
               subscribed, subscription, captured>>
countdownVars == <<showEmergency, countdown, interval, activations>>
wipeVars == <<completing, wipeLog, listener>>
storeVars == <<foreignKeys, lastDelete>>
flowVars == <<regenerating, secureStore, keyCalls, lastScan>>
deviceVars == <<shakeVars, countdownVars, wipeVars, storeVars, flowVars>>
appVars == <<pending, keyVars, sendVars, deviceVars>>

(***************************************************************************)
(* Bounds of the model.                                                    *)
(***************************************************************************)
MaxBit == 1          \* bits of a byte string that transit may flip: 1..MaxBit
MaxStored == 1       \* rows the messages table may hold
MaxDeliveries == 2   \* push calls recorded

(***************************************************************************)
(* JavaScript values that stand for "no value".                            *)
(***************************************************************************)
Undefined == [undefined |-> TRUE]
Null == [null |-> TRUE]
NoCall == [nocall |-> TRUE]
NoNotification == [nonotification |-> TRUE]

Users == {"alice", "bob", "mallory"}
Attacker == "mallory"
Devices == Users \ {Attacker}   \* the honest users, whose devices are modelled
Messages == {"hi", "yo"}
ClientTimes == {1, 2}
Nonces == {1, 2}

(***************************************************************************)
(* Bytes and hex strings.  toHex / hexToBytes are the two directions of    *)
(* the wire encoding; a bit flipped in the hex string is a bit flipped in  *)
(* the bytes it decodes to.                                                *)
(***************************************************************************)
Bytes(body) == [body |-> body, flip |-> 0]

toHex(bytes) == [hex |-> bytes]

hexToBytes(hex) == hex.hex

FlipBit(hex, k) == [hex |-> [body |-> hex.hex.body, flip |-> k]]

\* A hex string that lost its last two characters (one byte).
Shortened(hex) == [hex |-> hex.hex, short |-> TRUE]

\* The length of a byte string: an Ed25519 signature has 64 bytes, the nonce
\* randomBytes(12) has 12, a ciphertext has its plaintext and a 16-byte tag.
ByteLen(bytes) ==
    CASE "signer" \in DOMAIN bytes.body -> 64
      [] "junk" \in DOMAIN bytes.body -> 64
      [] "n" \in DOMAIN bytes.body -> 12
      [] OTHER -> 80

\* The number of characters of a hex string.
HexLen(hex) == 2 * ByteLen(hex.hex) - (IF "short" \in DOMAIN hex THEN 2 ELSE 0)

\* typeof v === 'string' && /^[a-f0-9]+$/i.test(v)
isHexString(v) == "hex" \in DOMAIN v

\* typeof v === 'string': hex strings, JSON texts, template strings, other text.
isString(v) == DOMAIN v \cap {"hex", "json", "str", "text"} # {}

(***************************************************************************)
(* The primitives of @noble/curves and @noble/ciphers, symbolically.       *)
(***************************************************************************)
ed25519_getPublicKey(privateKey) == [edpub |-> privateKey]

x25519_getPublicKey(privateKey) == [xpub |-> privateKey]

\* X25519: both sides derive the same secret, and only from a matching pair.
x25519_getSharedSecret(privateKey, publicKey) == [dh |-> {privateKey, publicKey.xpub}]

ed25519_sign(message, privateKey) ==
    Bytes([signer |-> ed25519_getPublicKey(privateKey), over |-> message])

\* ed25519.verify returns false (it does not throw) for 64 bytes that are no
\* valid signature of the message under the key.
ed25519_verify(signature, message, publicKey) ==
    /\ signature.flip = 0
    /\ "signer" \in DOMAIN signature.body
    /\ signature.body.signer = publicKey
    /\ signature.body.over = message

chacha20poly1305_encrypt(key, nonce, plaintext) ==
    Bytes([key |-> key, nonce |-> nonce, plain |-> plaintext])

\* cipher.decrypt throws unless the Poly1305 tag verifies under (key, nonce).
chacha20poly1305_canDecrypt(key, nonce, ciphertext) ==
    /\ ciphertext.flip = 0
    /\ "key" \in DOMAIN ciphertext.body
    /\ ciphertext.body.key = key
    /\ ciphertext.body.nonce = nonce

chacha20poly1305_decrypt(key, nonce, ciphertext) == ciphertext.body.plain

JSONstringify(value) == [json |-> value]

JSONcanParse(text) == "json" \in DOMAIN text

JSONparse(text) == text.json

(***************************************************************************)
(* Keys.                                                                   *)
(***************************************************************************)
\* generateKeyPair: one seed is the private key of both roles.
generateKeyPair(seed) ==
    [publicKey  |-> [ed25519 |-> ed25519_getPublicKey(seed),
                     x25519  |-> x25519_getPublicKey(seed)],
     privateKey |-> [ed25519 |-> [publicKey  |-> ed25519_getPublicKey(seed),
                                  privateKey |-> seed],
                     x25519  |-> [publicKey  |-> x25519_getPublicKey(seed),
                                  privateKey |-> seed]]]

\* getKeys of the device whose secure store holds the pair generated from seed.
getKeys(seed) == generateKeyPair(seed)

Identity(u) == generateKeyPair(u).publicKey

Identities == {Identity(u) : u \in Users}

\* Lexicographic order of the hex keys, as Array.prototype.sort compares them.
KeyRank(edKey) ==
    CASE edKey.edpub = "alice" -> 1
      [] edKey.edpub = "bob" -> 2
      [] OTHER -> 3

\* A variant that hashes the two keys in the order given.
generateConversationId_unsorted(publicKey1, publicKey2) ==
    [sha256 |-> <<publicKey1.ed25519, publicKey2.ed25519>>]

generateConversationId(publicKey1, publicKey2) ==
    LET k1 == publicKey1.ed25519
        k2 == publicKey2.ed25519
        sorted == IF KeyRank(k1) <= KeyRank(k2) THEN <<k1, k2>> ELSE <<k2, k1>>
    IN [sha256 |-> sorted]

(***************************************************************************)
(* encryptMessage, run on the device whose keys are `keys`.                *)
(***************************************************************************)
\* A variant that uses one nonce for every message.
encryptWith_fixedNonce(keys, claimedPublicKey, message, recipientPublicKey, timestamp, nonceValue) ==
    LET payload == [publicKey |-> claimedPublicKey,
                    message   |-> message,
                    timestamp |-> timestamp]
        payloadString == JSONstringify(payload)
        sharedSecret == x25519_getSharedSecret(keys.privateKey.x25519.privateKey,
                                               recipientPublicKey.x25519)
        nonce == Bytes([n |-> 1])
        encrypted == chacha20poly1305_encrypt(sharedSecret, nonce, payloadString)
        signature == ed25519_sign(encrypted, keys.privateKey.ed25519.privateKey)
    IN [destination |-> recipientPublicKey,
        message |-> [encrypted |-> toHex(encrypted),
                     nonce     |-> toHex(nonce),
                     signature |-> toHex(signature)]]

\* encryptMessage with the identity written into the payload as a parameter;
\* nonceValue is what Crypto.getRandomBytes(12) returned.
encryptWith(keys, claimedPublicKey, message, recipientPublicKey, timestamp, nonceValue) ==
    LET payload == [publicKey |-> claimedPublicKey,
                    message   |-> message,
                    timestamp |-> timestamp]
        payloadString == JSONstringify(payload)
        sharedSecret == x25519_getSharedSecret(keys.privateKey.x25519.privateKey,
                                               recipientPublicKey.x25519)
        nonce == Bytes([n |-> nonceValue])
        encrypted == chacha20poly1305_encrypt(sharedSecret, nonce, payloadString)
        signature == ed25519_sign(encrypted, keys.privateKey.ed25519.privateKey)
    IN [destination |-> recipientPublicKey,
        message |-> [encrypted |-> toHex(encrypted),
                     nonce     |-> toHex(nonce),
                     signature |-> toHex(signature)]]

\* A variant that leaves the clock value out of the payload.
encryptMessage_noTimestamp(keys, message, recipientPublicKey, timestamp, nonceValue) ==
    encryptWith(keys, keys.publicKey, message, recipientPublicKey, 0, nonceValue)

encryptMessage(keys, message, recipientPublicKey, timestamp, nonceValue) ==
    encryptWith(keys, keys.publicKey, message, recipientPublicKey, timestamp, nonceValue)

(***************************************************************************)
(* decryptMessage, run on the device whose keys are `keys`.  The result    *)
(* records whether the signature verified and whether decryption was       *)
(* attempted, beside the value returned.                                   *)
(***************************************************************************)
decryptMessage(keys, encryptedPayload) ==
    LET parsed == encryptedPayload.encryptedMessage
        nothing == [isValid |-> FALSE, decryptAttempted |-> FALSE, result |-> Null]
    IN IF parsed.nonce = Undefined THEN nothing
       ELSE IF encryptedPayload.origin = Undefined THEN nothing
       ELSE
        LET senderPublicKeyData == encryptedPayload.origin
            isValid == ed25519_verify(hexToBytes(parsed.signature),
                                      hexToBytes(parsed.encrypted),
                                      senderPublicKeyData.ed25519)
            sharedSecret == x25519_getSharedSecret(keys.privateKey.x25519.privateKey,
                                                   senderPublicKeyData.x25519)
            encryptedBytes == hexToBytes(parsed.encrypted)
            nonceBytes == hexToBytes(parsed.nonce)
        IN IF ~chacha20poly1305_canDecrypt(sharedSecret, nonceBytes, encryptedBytes)
           THEN [isValid |-> isValid, decryptAttempted |-> TRUE, result |-> Null]
           ELSE
            LET decrypted == chacha20poly1305_decrypt(sharedSecret, nonceBytes, encryptedBytes)
            IN IF ~JSONcanParse(decrypted)
               THEN [isValid |-> isValid, decryptAttempted |-> TRUE, result |-> Null]
               ELSE [isValid |-> isValid,
                     decryptAttempted |-> TRUE,
                     result |-> [senderPublicKey |-> JSONparse(decrypted).publicKey,
                                 message         |-> JSONparse(decrypted).message,
                                 timestamp       |-> JSONparse(decrypted).timestamp]]

(***************************************************************************)
(* The local database (utils/database.ts).                                 *)
(***************************************************************************)
toISOString(timestamp) == [iso |-> timestamp]

ConversationIds(convs) == {c.id : c \in convs}

\* An id above every id of the table.
NextItemId(msgs) ==
    IF msgs = << >> THEN 1
    ELSE 1 + CHOOSE k \in {msgs[i].id : i \in 1..Len(msgs)} :
                 \A i \in 1..Len(msgs) : msgs[i].id <= k

\* createConversation (hooks/useConversations): INSERT a row under the id of
\* the two identities; the row has no lastMessage yet (the column is NULL).
\* The INSERT fails on an id the table already holds, and the table stays.
createConversation(convs, localPublicKey, title, recipientPublicKey, nowIso) ==
    LET conversationId == generateConversationId(localPublicKey, recipientPublicKey)
    IN IF conversationId \in ConversationIds(convs)
       THEN convs
       ELSE convs \cup {[id |-> conversationId,
                         title |-> title,
                         recipientPublicKey |-> recipientPublicKey,
                         createdAt |-> nowIso,
                         updatedAt |-> nowIso]}

\* insertReceivedMessage: creates the conversation when it does not exist,
\* else updates its lastMessage and updatedAt; then inserts the message row.
insertReceivedMessage(convs, msgs, message, conversationId, senderPublicKey, createdAt) ==
    LET existing == {c \in convs : c.id = conversationId}
        newConvs ==
            IF existing = {}
            THEN convs \cup {[id |-> conversationId,
                              title |-> "Unknown Contact",
                              recipientPublicKey |-> senderPublicKey,
                              lastMessage |-> message,
                              createdAt |-> createdAt,
                              updatedAt |-> createdAt]}
            ELSE {IF c.id = conversationId
                  THEN [id |-> c.id,
                        title |-> c.title,
                        recipientPublicKey |-> c.recipientPublicKey,
                        lastMessage |-> message,
                        createdAt |-> c.createdAt,
                        updatedAt |-> createdAt]
                  ELSE c : c \in convs}
        row == [id |-> NextItemId(msgs),
                value |-> message,
                conversationId |-> conversationId,
                senderPublicKey |-> senderPublicKey,
                createdAt |-> createdAt]
    IN [conversations |-> newConvs,
        messages |-> Append(msgs, row),
        isNewConversation |-> existing = {}]

(***************************************************************************)
(* Notifications that can reach the device.                                *)
(***************************************************************************)
Notification(origin, encryptedData) ==
    [origin |-> origin,
     destination |-> encryptedData.destination,
     encryptedMessage |-> encryptedData.message]

\* What an honest peer's app sends: encryptMessage, origin = its own identity.
PeerNotification(a, b, m, t, n) ==
    Notification(Identity(a), encryptMessage(getKeys(a), m, Identity(b), t, n))

\* 64 bytes that are no signature of anything.
JunkSignature == toHex(Bytes([junk |-> TRUE]))

\* What the attacker can build with its own key pair and public identities:
\* a payload naming any identity as the sender, sent under its own origin or
\* under an origin that pairs the victim's signing key with its own agreement
\* key, signed with its own key or not signed at all.
ForgedOrigin(victim, mixed) ==
    IF mixed
    THEN [ed25519 |-> Identity(victim).ed25519, x25519 |-> Identity(Attacker).x25519]
    ELSE Identity(Attacker)

ForgedNotification(victim, mixed, signed, b, m, t, n) ==
    LET data == encryptWith(getKeys(Attacker), Identity(victim), m, Identity(b), t, n)
        env == IF signed THEN data.message
               ELSE [data.message EXCEPT !.signature = JunkSignature]
    IN [origin |-> ForgedOrigin(victim, mixed),
        destination |-> data.destination,
        encryptedMessage |-> env]

EnvelopeFields == {"encrypted", "nonce", "signature"}

Tampered(data, fld, k) ==
    [data EXCEPT !.encryptedMessage[fld] = FlipBit(data.encryptedMessage[fld], k)]

(***************************************************************************)
(* Client actions.                                                         *)
(***************************************************************************)
\* A peer a encrypts m for b at time t; the push reaches this device.
PeerSends(a, b, m, t, n) ==
    /\ net = NoNotification
    /\ Len(messages) < MaxStored
    /\ net' = [data |-> PeerNotification(a, b, m, t, n),
               honest |-> TRUE, by |-> a, to |-> b, message |-> m, timestamp |-> t,
               flipped |-> "none"]
    /\ lastDecrypt' = NoCall
    /\ UNCHANGED <<me, conversations, messages, relayVars, appVars>>

AttackerSends(victim, mixed, signed, b, m) ==
    /\ net = NoNotification
    /\ Len(messages) < MaxStored
    /\ net' = [data |-> ForgedNotification(victim, mixed, signed, b, m, 1, 1),
               honest |-> FALSE, by |-> Attacker, to |-> b, message |-> m, timestamp |-> 1,
               flipped |-> "none"]
    /\ lastDecrypt' = NoCall
    /\ UNCHANGED <<me, conversations, messages, relayVars, appVars>>

\* One bit of one envelope field is flipped in transit.
Tamper(fld, k) ==
    /\ net # NoNotification
    /\ net.flipped = "none"
    /\ net' = [net EXCEPT !.data = Tampered(net.data, fld, k), !.flipped = fld]
    /\ UNCHANGED <<me, lastDecrypt, conversations, messages, relayVars, appVars>>

\* The notification listener of AppContent.
Receive ==
    /\ net # NoNotification
    /\ LET incomingData == net.data
           \* if (!incomingData.destination || !incomingData.encryptedMessage) return
           call == IF \/ incomingData.destination = Undefined
                      \/ incomingData.encryptedMessage = Undefined
                   THEN [isValid |-> FALSE, decryptAttempted |-> FALSE, result |-> Null]
                   ELSE decryptMessage(getKeys(me), incomingData)
           decrypted == call.result
       IN /\ lastDecrypt' = [input |-> net, isValid |-> call.isValid,
                             decryptAttempted |-> call.decryptAttempted,
                             result |-> decrypted,
                             stored |-> decrypted # Null]
          /\ IF decrypted = Null
             THEN UNCHANGED <<conversations, messages>>
             ELSE LET localPublicKey == getKeys(me).publicKey
                      conversationId ==
                          generateConversationId(localPublicKey, decrypted.senderPublicKey)
                      res == insertReceivedMessage(conversations, messages,
                                                   decrypted.message, conversationId,
                                                   decrypted.senderPublicKey,
                                                   toISOString(decrypted.timestamp))
                  IN /\ conversations' = res.conversations
                     /\ messages' = res.messages
    /\ net' = NoNotification
    /\ UNCHANGED <<me, relayVars, appVars>>

(***************************************************************************)
(* The client specification: one device, its peers and the attacker.       *)
(***************************************************************************)
\* AppContent once mounted, at time t of the device's clock: no shake was
\* counted, the first handleShake is subscribed, the countdown is hidden and
\* initializeDatabase has switched the foreign keys of app.db on.
InitDevice(t) ==
    /\ deviceTime = t
    /\ shakeCount = 0
    /\ lastShakeTime = 0
    /\ shakeTimes = << >>
    /\ sinceReset = 0
    /\ subscribed = {FALSE}
    /\ subscription = {FALSE}
    /\ captured = {}
    /\ showEmergency = FALSE
    /\ countdown = 5
    /\ interval = 0
    /\ activations = << >>
    /\ completing = {}
    /\ wipeLog = << >>
    /\ listener = NoCall
    /\ foreignKeys = TRUE
    /\ lastDelete = NoCall
    /\ regenerating = NoCall
    /\ secureStore = [publicKey |-> 0, privateKey |-> 0]
    /\ keyCalls = {}
    /\ lastScan = NoCall

\* Nothing is in flight and nothing has been called.
InitApp ==
    /\ pending = {}
    /\ generated = 0
    /\ returned = {}
    /\ lastKeys = NoCall
    /\ pushToken = "none"
    /\ sendLog = NoCall
    /\ InitDevice(0)

InitRelayVars ==
    /\ InitApp
    /\ now = 0   \* the relay is not part of this specification
    /\ recipients = {}
    /\ deliveries = << >>
    /\ lastSend = NoCall
    /\ lastCleanup = NoCall

InitCipher ==
    /\ me \in Devices
    /\ net = NoNotification
    /\ lastDecrypt = NoCall
    /\ conversations = {}
    /\ messages = << >>
    /\ InitRelayVars

NextCipher ==
    \/ \E a \in Users, b \in Users, m \in Messages, t \in ClientTimes, n \in Nonces :
          PeerSends(a, b, m, t, n)
    \/ \E victim \in Devices, mixed \in BOOLEAN, signed \in BOOLEAN, m \in Messages :
          AttackerSends(victim, mixed, signed, me, m)
    \/ \E fld \in EnvelopeFields, k \in 1..MaxBit : Tamper(fld, k)
    \/ Receive

SpecCipher == InitCipher /\ [][NextCipher]_vars

(***************************************************************************)
(* Properties of decryptMessage and the notification listener.             *)
(***************************************************************************)
\* Whether the envelope signature verifies over the ciphertext bytes under the
\* Ed25519 key of the notification's origin.
EnvelopeSignatureVerifies(data) ==
    /\ data.origin # Undefined
    /\ ed25519_verify(hexToBytes(data.encryptedMessage.signature),
                      hexToBytes(data.encryptedMessage.encrypted),
                      data.origin.ed25519)

\* C1: whenever the envelope signature does not verify under the origin's
\* signing key, decryptMessage attempts no decryption and returns the failure
\* value.
C1_FailFastOnBadSignature ==
    (lastDecrypt # NoCall /\ ~EnvelopeSignatureVerifies(lastDecrypt.input.data))
        => (~lastDecrypt.decryptAttempted /\ lastDecrypt.result = Null)

\* C2: every message decryptMessage returns and the listener stores, from an
\* envelope whose signature verified under the origin's signing key, is
\* attributed to that origin: the returned senderPublicKey is the origin, and
\* the row is filed under the conversation with the origin.
C2_SenderIsOrigin ==
    (/\ lastDecrypt # NoCall
     /\ lastDecrypt.stored
     /\ EnvelopeSignatureVerifies(lastDecrypt.input.data))
        => /\ lastDecrypt.result.senderPublicKey = lastDecrypt.input.data.origin
           /\ messages[Len(messages)].senderPublicKey = lastDecrypt.input.data.origin
           /\ messages[Len(messages)].conversationId =
                  generateConversationId(getKeys(me).publicKey,
                                         lastDecrypt.input.data.origin)

\* C3: an envelope with one bit of its ciphertext, nonce or signature flipped
\* never decrypts: decryptMessage returns the failure value.
C3_AnyBitFlipFails ==
    (lastDecrypt # NoCall /\ lastDecrypt.input.flipped # "none")
        => lastDecrypt.result = Null

\* C4: decrypting at B the untouched envelope that A's encryptMessage made
\* for B, with origin A, returns the message, the timestamp set at encryption
\* and A's identity.
C4_RoundTrip ==
    (/\ lastDecrypt # NoCall
     /\ lastDecrypt.input.honest
     /\ lastDecrypt.input.flipped = "none"
     /\ lastDecrypt.input.to = me)
        => lastDecrypt.result =
               [senderPublicKey |-> Identity(lastDecrypt.input.by),
                message         |-> lastDecrypt.input.message,
                timestamp       |-> lastDecrypt.input.timestamp]

C4_Witness ==
    /\ lastDecrypt # NoCall
    /\ lastDecrypt.input.honest
    /\ lastDecrypt.input.flipped = "none"
    /\ lastDecrypt.input.to = me
    /\ lastDecrypt.input.by = "alice"
    /\ me = "bob"
    /\ lastDecrypt.result # Null
    /\ lastDecrypt.result.message = "yo"
    /\ lastDecrypt.result.timestamp = 2
    /\ Len(messages) = 1

(***************************************************************************)
(* The relay (whispers-nodejs-be).                                         *)
(***************************************************************************)
TIMESTAMP_TOLERANCE == 300000

StartTime == 10 * TIMESTAMP_TOLERANCE

\* The instants at which the relay is observed, around the two edges of the
\* tolerance window of a request stamped StartTime.
TimePoints ==
    {StartTime + d : d \in {0, 1, TIMESTAMP_TOLERANCE - 1, TIMESTAMP_TOLERANCE,
                            TIMESTAMP_TOLERANCE + 1}}

\* Timestamps a request may carry: the start, and an instant after the window.
RequestTimes == {StartTime, StartTime + TIMESTAMP_TOLERANCE + 1}

Tokens == {"ExponentPushToken[A]", "ExponentPushToken[B]"}

Num(n) == [num |-> n]

Abs(x) == IF x < 0 THEN -x ELSE x

\* The template string `${timestamp}${destination}${encryptedMessage}`.
Concat3(timestamp, destination, encryptedMessage) ==
    [str |-> <<timestamp, destination, encryptedMessage>>]

\* signMessage of the client (utils/keys): Ed25519 over the UTF-8 bytes.
signMessage(keys, message) ==
    toHex(ed25519_sign(message, keys.privateKey.ed25519.privateKey))

\* nacl.sign.detached.verify(message, signature, publicKey).
nacl_sign_detached_verify(message, signature, publicKey) ==
    ed25519_verify(signature, message, publicKey)

\* isValidKeyObject: a JSON string with ed25519 and x25519 hex keys.
isValidKeyObject(keyObj) ==
    /\ "ed25519" \in DOMAIN keyObj
    /\ "x25519" \in DOMAIN keyObj

\* isValidEncryptedMessage: a JSON string with encrypted, signature and nonce.
isValidEncryptedMessage(msg) ==
    /\ JSONcanParse(msg)
    /\ {"encrypted", "signature", "nonce"} \subseteq DOMAIN JSONparse(msg)
    /\ \A f \in {"encrypted", "signature", "nonce"} : isHexString(JSONparse(msg)[f])

\* typeof signature === 'string' && /^[a-f0-9]{128}$/i.test(signature)
isSignatureFormat(signature) == isHexString(signature) /\ HexLen(signature) = 128

\* JavaScript's !timestamp.
isFalsyTimestamp(timestamp) ==
    \/ timestamp = Undefined
    \/ ("num" \in DOMAIN timestamp /\ timestamp.num = 0)

isPositiveNumber(timestamp) == "num" \in DOMAIN timestamp /\ timestamp.num > 0

\* A variant that also rejects a request exactly at the edge of the window.
withinTolerance_strict(nowv, timestamp) == ~(Abs(nowv - timestamp) >= TIMESTAMP_TOLERANCE)

\* A variant without the window check.
withinTolerance_off(nowv, timestamp) == TRUE

withinTolerance(nowv, timestamp) == ~(Abs(nowv - timestamp) > TIMESTAMP_TOLERANCE)

\* A variant that puts the envelope before the destination.
relaySignedMessage_envelopeFirst(timestamp, destination, encryptedMessage) ==
    Concat3(timestamp, encryptedMessage, destination)

relaySignedMessage(timestamp, destination, encryptedMessage) ==
    Concat3(timestamp, destination, encryptedMessage)

\* A variant that logs a failed signature check and goes on.
verifyRequestSignature_logOnly(origin, timestamp, destination, encryptedMessage, signature, nowv) ==
    IF ~withinTolerance(nowv, timestamp.num)
    THEN [ok |-> FALSE, checked |-> {"window"}]
    ELSE [ok |-> TRUE, checked |-> {"window", "signature"}]

\* A variant that verifies the signature first and the window after it.
verifyRequestSignature_signatureFirst(origin, timestamp, destination, encryptedMessage, signature, nowv) ==
    IF ~nacl_sign_detached_verify(relaySignedMessage(timestamp.num, destination, encryptedMessage),
                                  hexToBytes(signature), origin.ed25519)
    THEN [ok |-> FALSE, checked |-> {"signature"}]
    ELSE [ok |-> withinTolerance(nowv, timestamp.num), checked |-> {"window", "signature"}]

\* verifyRequestSignature; `checked` names the checks it evaluated.
verifyRequestSignature(origin, timestamp, destination, encryptedMessage, signature, nowv) ==
    IF ~withinTolerance(nowv, timestamp.num)
    THEN [ok |-> FALSE, checked |-> {"window"}]
    ELSE LET message == relaySignedMessage(timestamp.num, destination, encryptedMessage)
             signatureBytes == hexToBytes(signature)
             publicKey == origin.ed25519
         IN [ok |-> nacl_sign_detached_verify(message, signatureBytes, publicKey),
             checked |-> {"window", "signature"}]

Response(status, error, steps) == [status |-> status, error |-> error, steps |-> steps]

\* A variant that returns a row whatever the recipient_id.
Lookup_anyRow(dir, recipientId) == dir

\* The recipients table as a set of rows, one per recipient_id.
Lookup(dir, recipientId) == {r \in dir : r.recipient_id = recipientId}

\* The status recorded for a request whose handler ended without a response.
NoResponse == 0

\* sanitizeForLog(req.body), called for the log line before any check: the
\* key objects and the envelope are parsed inside try/catch, the request
\* signature is not; `sanitized.signature.substring` throws a TypeError for a
\* truthy value that is no string.
sanitizeForLogThrows(body) ==
    /\ body.signature # Undefined
    /\ ~isString(body.signature)
    /\ ~("num" \in DOMAIN body.signature /\ body.signature.num = 0)
    /\ ~("bool" \in DOMAIN body.signature /\ ~body.signature.bool)

\* The synchronous part of app.post('/send'): the log line, then every check
\* up to the lookup.  steps: the stages the request reached.  The handler is
\* an async function under Express 4: an exception thrown outside its
\* try/catch rejects its promise and no response is sent.
sendChecks(req, nowv, dir) ==
    IF sanitizeForLogThrows(req)
    THEN Response(NoResponse, "TypeError: sanitized.signature.substring is not a function", {})
    ELSE IF \/ req.encryptedMessage = Undefined
       \/ req.destination = Undefined
       \/ isFalsyTimestamp(req.timestamp)
       \/ req.signature = Undefined
    THEN Response(400, "Missing required fields: encryptedMessage, destination, timestamp, signature",
                  {"shape"})
    ELSE IF ~isPositiveNumber(req.timestamp)
    THEN Response(400, "Invalid timestamp: must be a positive number", {"shape"})
    ELSE IF ~isSignatureFormat(req.signature)
    THEN Response(400, "Invalid signature: must be 128-character hex string", {"shape"})
    ELSE IF ~isValidKeyObject(req.destination)
    THEN Response(400, "Invalid destination format: must be JSON with ed25519 and x25519 keys",
                  {"shape"})
    ELSE IF req.origin # Undefined /\ ~isValidKeyObject(req.origin)
    THEN Response(400, "Invalid origin format: must be JSON with ed25519 and x25519 keys",
                  {"shape"})
    ELSE IF ~isValidEncryptedMessage(req.encryptedMessage)
    THEN Response(400, "Invalid encrypted message format: must contain encrypted, signature, and nonce hex strings",
                  {"shape"})
    ELSE IF req.origin = Undefined
    THEN Response(401, "Unauthorized: Invalid or expired signature", {"shape"})
    ELSE LET v == verifyRequestSignature(req.origin, req.timestamp, req.destination,
                                         req.encryptedMessage, req.signature, nowv)
         IN IF ~v.ok
            THEN Response(401, "Unauthorized: Invalid or expired signature",
                          {"shape"} \cup v.checked)
            ELSE IF Lookup(dir, req.destination) = {}
            THEN Response(404, "Recipient not found", {"shape", "lookup"} \cup v.checked)
            ELSE Response(200, "", {"shape", "lookup", "deliver"} \cup v.checked)

\* A variant that addresses every push to one fixed token.
pushMessage_fixedToken(req, recipient) ==
    [to |-> "ExponentPushToken[A]",
     data |-> [origin |-> req.origin,
               destination |-> req.destination,
               encryptedMessage |-> JSONparse(req.encryptedMessage)]]

\* The push message handed to expo.sendPushNotificationsAsync.
pushMessage(req, recipient) ==
    LET env == JSONparse(req.encryptedMessage)
    IN [to |-> recipient.expo_push_token,
        data |-> [origin |-> req.origin,
                  destination |-> req.destination,
                  encryptedMessage |-> [encrypted |-> env.encrypted,
                                        signature |-> env.signature,
                                        nonce |-> env.nonce]]]

(***************************************************************************)
(* Requests that reach the relay.                                          *)
(***************************************************************************)
Senders == {"alice"}
Recipients == {"bob"}
Registrants == {"bob"}

\* The JSON string encryptMessage returns as `message`.
EnvelopeString(c, d, m) ==
    JSONstringify(encryptMessage(getKeys(c), m, Identity(d), 1, 1).message)

clientSignedMessage(timestamp, destination, encryptedMessage) ==
    Concat3(timestamp, destination, encryptedMessage)

\* The body sendMessage (hooks/useBackend) posts to /send at client time t.
clientRequest(c, d, m, t) ==
    LET payload == [origin |-> Identity(c),
                    destination |-> Identity(d),
                    encryptedMessage |-> EnvelopeString(c, d, m)]
        messageToSign == clientSignedMessage(t, payload.destination,
                                             payload.encryptedMessage)
        signature == signMessage(getKeys(c), messageToSign)
    IN [origin |-> payload.origin,
        destination |-> payload.destination,
        encryptedMessage |-> payload.encryptedMessage,
        timestamp |-> Num(t),
        signature |-> signature]

RequestFields == {"origin", "destination", "encryptedMessage", "timestamp", "signature"}

\* Requests with a field of the wrong type or length.  A malformed envelope
\* is sent by the attacker under its own origin and with its own signature
\* over the request.
Malformations ==
    {"shortSignature", "textSignature", "numberSignature", "trueSignature",
     "textTimestamp", "negativeTimestamp", "textDestination", "textOrigin",
     "textEnvelope", "shortEnvelopeNonce", "shortEnvelopeSignature"}

OwnRequest(keys, destination, envelope, timestamp) ==
    [origin |-> keys.publicKey,
     destination |-> destination,
     encryptedMessage |-> JSONstringify(envelope),
     timestamp |-> timestamp,
     signature |-> signMessage(keys, Concat3(timestamp.num, destination,
                                               JSONstringify(envelope)))]

Alterations ==
    {"none", "spoofOrigin", "resign", "junkSignature", "redirect", "restamp", "swapMessage"}
        \cup {"drop_" \o f : f \in RequestFields}

OtherTime(t) == CHOOSE u \in RequestTimes : u # t

\* What a party other than the sender can make of a request it has seen:
\* the request itself (a replay), the request with one field removed or
\* replaced, or with a signature of its own.
Altered(req, alt) ==
    CASE alt = "none" -> req
      [] alt = "drop_origin" -> [req EXCEPT !.origin = Undefined]
      [] alt = "drop_destination" -> [req EXCEPT !.destination = Undefined]
      [] alt = "drop_encryptedMessage" -> [req EXCEPT !.encryptedMessage = Undefined]
      [] alt = "drop_timestamp" -> [req EXCEPT !.timestamp = Undefined]
      [] alt = "drop_signature" -> [req EXCEPT !.signature = Undefined]
      [] alt = "spoofOrigin" -> [req EXCEPT !.origin = Identity(Attacker)]
      [] alt = "resign" ->
            [req EXCEPT !.signature =
                signMessage(getKeys(Attacker),
                            clientSignedMessage(req.timestamp.num, req.destination,
                                                req.encryptedMessage))]
      [] alt = "junkSignature" -> [req EXCEPT !.signature = JunkSignature]
      [] alt = "redirect" -> [req EXCEPT !.destination = Identity("alice")]
      [] alt = "restamp" -> [req EXCEPT !.timestamp = Num(OtherTime(req.timestamp.num))]
      [] alt = "swapMessage" ->
            [req EXCEPT !.encryptedMessage = EnvelopeString(Attacker, "bob", "yo")]
      [] alt = "shortSignature" -> [req EXCEPT !.signature = Shortened(req.signature)]
      [] alt = "textSignature" -> [req EXCEPT !.signature = [text |-> "not-hex"]]
      [] alt = "numberSignature" -> [req EXCEPT !.signature = [num |-> 12345]]
      [] alt = "trueSignature" -> [req EXCEPT !.signature = [bool |-> TRUE]]
      [] alt = "textTimestamp" -> [req EXCEPT !.timestamp = [text |-> "yesterday"]]
      [] alt = "negativeTimestamp" -> [req EXCEPT !.timestamp = [num |-> -1]]
      [] alt = "textDestination" -> [req EXCEPT !.destination = [text |-> "bob"]]
      [] alt = "textOrigin" -> [req EXCEPT !.origin = [text |-> "alice"]]
      [] alt = "textEnvelope" -> [req EXCEPT !.encryptedMessage = [text |-> "hello"]]
      [] alt = "shortEnvelopeNonce" ->
            LET env == JSONparse(req.encryptedMessage)
            IN OwnRequest(getKeys(Attacker), req.destination,
                          [env EXCEPT !.nonce = Shortened(env.nonce)], req.timestamp)
      [] alt = "shortEnvelopeSignature" ->
            LET env == JSONparse(req.encryptedMessage)
            IN OwnRequest(getKeys(Attacker), req.destination,
                          [env EXCEPT !.signature = Shortened(env.signature)], req.timestamp)

(***************************************************************************)
(* Relay actions.                                                          *)
(***************************************************************************)
\* CURRENT_TIMESTAMP of SQLite: the clock in whole seconds.
CURRENT_TIMESTAMP(nowv) == nowv \div 1000

\* app.post('/register') with a well-formed recipientId and Expo push token:
\* INSERT ... ON CONFLICT(recipient_id) DO UPDATE.
\* datetime('now', '-24 hours'), in the seconds CURRENT_TIMESTAMP counts.
staleCutoff(nowv) == CURRENT_TIMESTAMP(nowv) - 24 * 60 * 60

\* A variant that also removes a record registered exactly 24 hours ago.
isStale_orEqual(row, nowv) == row.updated_at <= staleCutoff(nowv)

\* WHERE updated_at < datetime('now', '-24 hours')
isStale(row, nowv) == row.updated_at < staleCutoff(nowv)

CLEANUP_KEY == "change-me-in-production"

\* A variant that accepts any key that is present.
isCleanupKey_anyKey(key) == key # Undefined

\* !key || key !== CLEANUP_KEY, negated.
isCleanupKey(key) == key # Undefined /\ key = [text |-> CLEANUP_KEY]

\* A variant of the upsert for a relay that keeps one record per device: the
\* records of other identities with the same push token are removed.
upsert_oneRecordPerToken(dir, recipientId, token, nowv) ==
    {r \in dir : r.recipient_id # recipientId /\ r.expo_push_token # token}
        \cup {[recipient_id |-> recipientId,
               expo_push_token |-> token,
               updated_at |-> CURRENT_TIMESTAMP(nowv)]}

upsert(dir, recipientId, token, nowv) ==
    {r \in dir : r.recipient_id # recipientId}
        \cup {[recipient_id |-> recipientId,
               expo_push_token |-> token,
               updated_at |-> CURRENT_TIMESTAMP(nowv)]}

Register(u, token) ==
    /\ Len(deliveries) < MaxDeliveries
    /\ recipients' = upsert(recipients, Identity(u), token, now)
    /\ lastSend' = NoCall
    /\ lastCleanup' = NoCall
    /\ UNCHANGED <<now, deliveries, clientVars, appVars>>

\* A variant of /send with a replay cache: a request delivered before is
\* answered 401 and not delivered again.
Send_replayCache(c, d, t, alt, expoOk) ==
    /\ Len(deliveries) < MaxDeliveries
    /\ LET req == Altered(clientRequest(c, d, "hi", t), alt)
           r == sendChecks(req, now, recipients)
           seen == \E i \in 1..Len(deliveries) : deliveries[i].req = req
       IN IF r.status = 200 /\ ~seen
          THEN LET recipient == CHOOSE x \in Lookup(recipients, req.destination) : TRUE
               IN /\ deliveries' = Append(deliveries,
                                          [push |-> pushMessage(req, recipient), req |-> req])
                  /\ lastSend' = [req |-> req, at |-> now,
                                  status |-> IF expoOk THEN 200 ELSE 500,
                                  error |-> IF expoOk THEN "" ELSE "Failed to send notification",
                                  steps |-> r.steps]
          ELSE /\ expoOk
               /\ deliveries' = deliveries
               /\ lastSend' = [req |-> req, at |-> now,
                               status |-> IF r.status = 200 THEN 401 ELSE r.status,
                               error |-> r.error, steps |-> r.steps]
    /\ lastCleanup' = NoCall
    /\ UNCHANGED <<now, recipients, clientVars, appVars>>

\* app.post('/send') on a request: the checks, then the push through Expo,
\* which succeeds (200) or throws (500).  Send is the handler on the request
\* client c posts for d at client time t, altered on the way by alt.
handleSend(req, expoOk) ==
    /\ Len(deliveries) < MaxDeliveries
    /\ LET r == sendChecks(req, now, recipients)
       IN IF r.status = 200
          THEN LET recipient == CHOOSE x \in Lookup(recipients, req.destination) : TRUE
               IN /\ deliveries' = Append(deliveries,
                                          [push |-> pushMessage(req, recipient), req |-> req])
                  /\ lastSend' = [req |-> req, at |-> now,
                                  status |-> IF expoOk THEN 200 ELSE 500,
                                  error |-> IF expoOk THEN "" ELSE "Failed to send notification",
                                  steps |-> r.steps]
          ELSE /\ expoOk
               /\ deliveries' = deliveries
               /\ lastSend' = [req |-> req, at |-> now, status |-> r.status,
                               error |-> r.error, steps |-> r.steps]
    /\ lastCleanup' = NoCall
    /\ UNCHANGED <<now, recipients, clientVars, appVars>>

Send(c, d, t, alt, expoOk) ==
    /\ Len(deliveries) < MaxDeliveries
    /\ handleSend(Altered(clientRequest(c, d, "hi", t), alt), expoOk)

\* The key a /cleanup request carries: none, a guess, or the configured one.
CleanupKeyNames == {"none", "wrong", "right"}

cleanupKey(k) ==
    CASE k = "none" -> Undefined
      [] k = "wrong" -> [text |-> "guess"]
      [] k = "right" -> [text |-> CLEANUP_KEY]

\* app.post('/cleanup'): 401 without the configured key; with it, DELETE the
\* stale rows and answer with result.changes.
Cleanup(k) ==
    /\ Len(deliveries) < MaxDeliveries
    /\ LET key == cleanupKey(k)
           stale == {r \in recipients : isStale(r, now)}
       IN IF ~isCleanupKey(key)
          THEN /\ recipients' = recipients
               /\ lastCleanup' = [key |-> key, at |-> now, before |-> recipients,
                                  status |-> 401,
                                  error |-> "Unauthorized: Invalid cleanup key"]
          ELSE /\ recipients' = recipients \ stale
               /\ lastCleanup' = [key |-> key, at |-> now, before |-> recipients,
                                  status |-> 200,
                                  deletedCount |-> Cardinality(stale)]
    /\ lastSend' = NoCall
    /\ UNCHANGED <<now, deliveries, clientVars, appVars>>

\* A variant of the clock in which stale records expire as time passes.
Tick_expiring(t) ==
    /\ Len(deliveries) < MaxDeliveries
    /\ t > now
    /\ now' = t
    /\ recipients' = {r \in recipients : ~isStale(r, t)}
    /\ lastSend' = NoCall
    /\ lastCleanup' = NoCall
    /\ UNCHANGED <<deliveries, clientVars, appVars>>

\* Time passes.
Tick(t) ==
    /\ Len(deliveries) < MaxDeliveries
    /\ t > now
    /\ now' = t
    /\ lastSend' = NoCall
    /\ lastCleanup' = NoCall
    /\ UNCHANGED <<recipients, deliveries, clientVars, appVars>>

InitRelay ==
    /\ me = "bob"
    /\ net = NoNotification
    /\ lastDecrypt = NoCall
    /\ conversations = {}
    /\ messages = << >>
    /\ now = StartTime
    /\ recipients = {}
    /\ deliveries = << >>
    /\ lastSend = NoCall
    /\ lastCleanup = NoCall
    /\ InitApp

NextRelay ==
    \/ \E u \in Registrants, token \in Tokens : Register(u, token)
    \/ \E c \in Senders, d \in Recipients, t \in RequestTimes,
          alt \in Alterations, expoOk \in BOOLEAN :
          Send(c, d, t, alt, expoOk)
    \/ \E t \in TimePoints : Tick(t)

SpecRelay == InitRelay /\ [][NextRelay]_vars

(***************************************************************************)
(* Properties of the relay's /send.                                        *)
(***************************************************************************)
\* The request carries every field the handler reads from it.
HasAllFields(req) == \A f \in RequestFields : req[f] # Undefined

\* The request signature verifies, under the Ed25519 key of the request's
\* origin, over timestamp || destination || encryptedMessage as received.
GenuinelySigned(req) ==
    /\ HasAllFields(req)
    /\ ed25519_verify(hexToBytes(req.signature),
                      Concat3(req.timestamp.num, req.destination, req.encryptedMessage),
                      req.origin.ed25519)

InWindow(req, at) ==
    /\ at - req.timestamp.num <= TIMESTAMP_TOLERANCE
    /\ req.timestamp.num - at <= TIMESTAMP_TOLERANCE

Delivered(req) == \E i \in 1..Len(deliveries) : deliveries[i].req = req

\* C5: a push delivery is issued only for a request whose signature verifies
\* under its origin's key over the fields as received; a request without
\* origin or with a signature that fails never reaches lookup or delivery.
C5_DeliveryOnlyIfSigned ==
    /\ \A i \in 1..Len(deliveries) :
          /\ GenuinelySigned(deliveries[i].req)
          /\ deliveries[i].push.data.origin = deliveries[i].req.origin
          /\ deliveries[i].push.data.destination = deliveries[i].req.destination
    /\ (lastSend # NoCall /\ ~GenuinelySigned(lastSend.req))
          => lastSend.steps \cap {"lookup", "deliver"} = {}

C5_Witness ==
    /\ lastSend # NoCall
    /\ lastSend.status = 200
    /\ "deliver" \in lastSend.steps
    /\ Len(deliveries) >= 1
    /\ deliveries[Len(deliveries)].req = lastSend.req

\* C6: a genuinely signed request is rejected for its timestamp exactly when
\* |now - timestamp| > 300000 ms, in the past and in the future alike: it
\* passes at T + tolerance - 1 and at T + tolerance, and fails at
\* T + tolerance + 1.
C6_WindowBoundary ==
    (lastSend # NoCall /\ GenuinelySigned(lastSend.req))
        => /\ (lastSend.status = 401) <=> ~InWindow(lastSend.req, lastSend.at)
           /\ ("signature" \in lastSend.steps) <=> InWindow(lastSend.req, lastSend.at)

C6_Witness ==
    /\ lastSend # NoCall
    /\ GenuinelySigned(lastSend.req)
    /\ lastSend.at = lastSend.req.timestamp.num + TIMESTAMP_TOLERANCE + 1
    /\ lastSend.status = 401
    /\ Delivered(lastSend.req)

\* A step that handles a /send request (Register and Tick clear lastSend).
IsSendStep == lastSend' # NoCall /\ (lastSend' # lastSend \/ deliveries' # deliveries)

C8_NoSecondAcceptance ==
    \A i, j \in 1..Len(deliveries) :
        (i # j) => ~(/\ deliveries[i].req.timestamp = deliveries[j].req.timestamp
                     /\ deliveries[i].req.signature = deliveries[j].req.signature)

\* Requests the relay may be sent, for comparing outcomes.
AllRequests ==
    {Altered(clientRequest(c, d, "hi", t), alt) :
        c \in Senders, d \in Recipients, t \in RequestTimes, alt \in Alterations}

Outcome(r) == [status |-> r.status, error |-> r.error]

\* Rejected only for its timestamp: complete, genuinely signed, outside the window.
ExpiredOnly(req, at) == GenuinelySigned(req) /\ ~InWindow(req, at)

\* Rejected only for its signature: complete, inside the window, signature invalid.
BadSignatureOnly(req, at) == HasAllFields(req) /\ InWindow(req, at) /\ ~GenuinelySigned(req)

C10_MissingFieldIs400 ==
    (lastSend # NoCall /\ ~HasAllFields(lastSend.req))
        => /\ lastSend.status = 400
           /\ lastSend.steps \cap {"window", "signature"} = {}

(***************************************************************************)
(* The relay's /send on malformed requests.                                *)
(***************************************************************************)
ShapeAlterations == Malformations \cup {"none"} \cup {"drop_" \o f : f \in RequestFields}

\* Requests are stamped StartTime and handled then or after the window.
ShapeRequestTimes == {StartTime}

ShapeTimePoints == {StartTime + TIMESTAMP_TOLERANCE + 1}

NextShape ==
    \/ \E u \in Registrants, token \in Tokens : Register(u, token)
    \/ \E c \in Senders, d \in Recipients, t \in ShapeRequestTimes,
          alt \in ShapeAlterations, expoOk \in BOOLEAN :
          Send(c, d, t, alt, expoOk)
    \/ \E t \in ShapeTimePoints : Tick(t)

SpecShape == InitRelay /\ [][NextShape]_vars

\* The stages of /send after shape validation.
LaterSteps == {"window", "signature", "lookup", "deliver"}

\* C11: a /send request whose signature is not a string of exactly 128 hex
\* characters, whatever the type of the value, is answered with 400, with no
\* cryptographic work, no lookup and no delivery; a response is always sent.
C11_MalformedSignatureIs400 ==
    (lastSend # NoCall /\ ~isSignatureFormat(lastSend.req.signature))
        => /\ lastSend.status = 400
           /\ lastSend.steps \cap LaterSteps = {}

\* The envelope is a JSON text whose three fields are hex strings.
EnvelopeOf(req) == JSONparse(req.encryptedMessage)

HasHexEnvelope(req) ==
    /\ req.encryptedMessage # Undefined
    /\ isValidEncryptedMessage(req.encryptedMessage)

EnvelopeLengthsOk(env) == HexLen(env.nonce) = 24 /\ HexLen(env.signature) = 128

\* C12: a request whose envelope nonce is not exactly 24 hex characters or
\* whose envelope signature is not exactly 128 hex characters is rejected by
\* shape validation (400), and no envelope of another shape is forwarded.
C12_EnvelopeLengthsChecked ==
    /\ (lastSend # NoCall /\ HasHexEnvelope(lastSend.req)
           /\ ~EnvelopeLengthsOk(EnvelopeOf(lastSend.req)))
          => lastSend.status = 400
    /\ \A i \in 1..Len(deliveries) :
          EnvelopeLengthsOk(deliveries[i].push.data.encryptedMessage)

\* Every shape check of /send passes: the required fields, the timestamp
\* type, the signature format, the destination, the origin if there is one,
\* and the envelope format.
ShapeOk(req) ==
    /\ req.encryptedMessage # Undefined
    /\ req.destination # Undefined
    /\ req.signature # Undefined
    /\ ~isFalsyTimestamp(req.timestamp)
    /\ isPositiveNumber(req.timestamp)
    /\ isSignatureFormat(req.signature)
    /\ isValidKeyObject(req.destination)
    /\ (req.origin # Undefined => isValidKeyObject(req.origin))
    /\ isValidEncryptedMessage(req.encryptedMessage)

DayMs == 24 * 60 * 60 * 1000

DirRegistrants == {"alice", "bob"}

DirTokens == {"ExponentPushToken[A]"}

\* The start, exactly 24 hours later, and one second after that.
DirTimePoints == {StartTime, StartTime + DayMs, StartTime + DayMs + 1000}

NextDirectory ==
    \/ \E u \in DirRegistrants, token \in DirTokens : Register(u, token)
    \/ \E c \in Senders, d \in Recipients, t \in DirTimePoints, expoOk \in BOOLEAN :
          t = now /\ Send(c, d, t, "none", expoOk)
    \/ \E k \in CleanupKeyNames : Cleanup(k)
    \/ \E t \in DirTimePoints : Tick(t)

SpecDirectory == InitRelay /\ [][NextDirectory]_vars

\* The directory holds a record under exactly this recipient_id.
Registered(recipientId) == \E r \in recipients : r.recipient_id = recipientId

\* C14: a /send that passes shape validation, the window and signature
\* verification, to a destination that is not registered (never was, or was
\* evicted), is answered 404 "Recipient not found" and makes no delivery call.
C14_UnknownRecipientIs404 ==
    [][(IsSendStep /\ GenuinelySigned(lastSend'.req) /\ InWindow(lastSend'.req, now)
            /\ ~Registered(lastSend'.req.destination))
        => /\ lastSend'.status = 404
           /\ lastSend'.error = "Recipient not found"
           /\ "deliver" \notin lastSend'.steps
           /\ deliveries' = deliveries]_vars

\* A request to a destination that was delivered to before and is now gone.
C14_Witness ==
    /\ lastSend # NoCall
    /\ lastSend.status = 404
    /\ Len(deliveries) >= 1
    /\ deliveries[1].req.destination = lastSend.req.destination

\* Seconds between a row's last registration and the instant nowv.
AgeSeconds(row, nowv) == CURRENT_TIMESTAMP(nowv) - row.updated_at

C19_CleanupRemovesExactlyStale ==
    (lastCleanup # NoCall /\ lastCleanup.status = 200)
        => /\ recipients = {r \in lastCleanup.before :
                               ~(AgeSeconds(r, lastCleanup.at) > 24 * 60 * 60)}
           /\ lastCleanup.deletedCount = Cardinality(lastCleanup.before \ recipients)

\* One record removed, one registered exactly 24 hours before kept.
C19_Witness ==
    /\ lastCleanup # NoCall
    /\ lastCleanup.status = 200
    /\ lastCleanup.deletedCount = 1
    /\ \E r \in recipients : r.updated_at > CURRENT_TIMESTAMP(StartTime)

\* C20: a cleanup request whose key is missing or is not the configured
\* CLEANUP_KEY is answered 401 and leaves the directory unchanged.
C20_CleanupNeedsKey ==
    (lastCleanup # NoCall /\ lastCleanup.key # [text |-> CLEANUP_KEY])
        => /\ lastCleanup.status = 401
           /\ recipients = lastCleanup.before

\* A refused cleanup while the directory holds a stale record.
C20_Witness ==
    /\ lastCleanup # NoCall
    /\ lastCleanup.status = 401
    /\ \E r \in recipients : AgeSeconds(r, lastCleanup.at) > 24 * 60 * 60

(***************************************************************************)
(* Encodings of an identity.  isValidKeyObject accepts each key with or    *)
(* without a 0x prefix and in either letter case, and JSON.parse accepts   *)
(* the fields in any order; the directory stores and compares the string   *)
(* as it was received.                                                     *)
(***************************************************************************)
Encodings == {"canonical", "0x", "upper"}

\* The JSON string of an identity in an encoding; "canonical" is the string
\* generateKeyPair returns.
Encoded(id, e) ==
    IF e = "canonical" THEN id
    ELSE [ed25519 |-> id.ed25519, x25519 |-> id.x25519, encoding |-> e]

\* app.post('/register') with recipientId in encoding e.
RegisterAs(u, e, token) ==
    /\ Len(deliveries) < MaxDeliveries
    /\ LET recipientId == Encoded(Identity(u), e)
       IN IF ~isValidKeyObject(recipientId)
          THEN recipients' = recipients
          ELSE recipients' = upsert(recipients, recipientId, token, now)
    /\ lastSend' = NoCall
    /\ lastCleanup' = NoCall
    /\ UNCHANGED <<now, deliveries, clientVars, appVars>>

\* app.post('/send') on a request client c posts now, naming the destination
\* in encoding e and signing what it posts.
SendAs(c, d, e, expoOk) ==
    /\ Len(deliveries) < MaxDeliveries
    /\ handleSend(OwnRequest(getKeys(c), Encoded(Identity(d), e),
                             encryptMessage(getKeys(c), "hi", Identity(d), 1, 1).message,
                             Num(now)),
                  expoOk)

NextEncoding ==
    \/ \E u \in Registrants, e \in Encodings, token \in Tokens : RegisterAs(u, e, token)
    \/ \E c \in Senders, d \in Recipients, e \in Encodings, expoOk \in BOOLEAN :
          SendAs(c, d, e, expoOk)

SpecEncoding == InitRelay /\ [][NextEncoding]_vars

\* Two strings encode the same identity: the same two keys.
SameIdentity(a, b) == a.ed25519 = b.ed25519 /\ a.x25519 = b.x25519

\* C15: two encodings of one identity compare equal: a recipient registered
\* under any accepted encoding is found by an authenticated /send whose
\* destination is any accepted encoding of the same identity.
C15_EncodingsCompareEqual ==
    (lastSend # NoCall /\ GenuinelySigned(lastSend.req)
        /\ InWindow(lastSend.req, lastSend.at)
        /\ \E r \in recipients : SameIdentity(r.recipient_id, lastSend.req.destination))
        => "deliver" \in lastSend.steps

\* The step is a /register of recipientId with token.
IsRegisterStep(recipientId, token) ==
    /\ recipients' = upsert(recipients, recipientId, token, now)
    /\ lastSend' = NoCall
    /\ lastCleanup' = NoCall
    /\ UNCHANGED <<now, deliveries>>

\* C17: the directory holds at most one record per identity, and after a
\* register every record of that identity carries the token just given
\* (last write wins; registering twice is registering once).
C17_OneRecordPerIdentity ==
    [][/\ \A r1, r2 \in recipients' :
              SameIdentity(r1.recipient_id, r2.recipient_id) => r1 = r2
       /\ \A u \in Registrants, e \in Encodings, token \in Tokens :
              IsRegisterStep(Encoded(Identity(u), e), token)
                  => \A r \in recipients' :
                         SameIdentity(r.recipient_id, Identity(u))
                             => r.expo_push_token = token]_vars

(***************************************************************************)
(* Conversations: a device that creates conversations with its contacts    *)
(* and receives messages from honest peers.                                *)
(***************************************************************************)
\* The user adds a contact: createConversation(title, recipientPublicKey).
CreateConversation(peer, t) ==
    /\ Len(messages) < MaxStored
    /\ conversations' = createConversation(conversations, getKeys(me).publicKey,
                                           "Contact", Identity(peer), toISOString(t))
    /\ lastDecrypt' = NoCall
    /\ UNCHANGED <<me, net, messages, relayVars, appVars>>

\* The client clock when a conversation is created.
CreationTimes == {1}

NextConversation ==
    \/ \E peer \in Users, t \in CreationTimes : CreateConversation(peer, t)
    \/ \E a \in Users, b \in Users, m \in Messages, t \in ClientTimes, n \in Nonces :
          PeerSends(a, b, m, t, n)
    \/ Receive

SpecConversation == InitCipher /\ [][NextConversation]_vars

\* C16: generateConversationId(A, B) = generateConversationId(B, A) for all
\* identities, so a message received from a peer is filed under the id the
\* peer's createConversation gave the conversation, and under the device's
\* own conversation with that peer when it has one.
C16_ConversationIdSymmetric ==
    /\ \A A \in Identities, B \in Identities :
          generateConversationId(A, B) = generateConversationId(B, A)
    /\ (lastDecrypt # NoCall /\ lastDecrypt.stored /\ lastDecrypt.input.honest)
          => LET row == messages[Len(messages)]
                 peer == Identity(lastDecrypt.input.by)
             IN /\ row.conversationId = generateConversationId(peer, getKeys(me).publicKey)
                /\ \A c \in conversations :
                      c.recipientPublicKey = peer => c.id = row.conversationId

\* A message from a peer arrives in a conversation the device created itself.
C16_Witness ==
    /\ lastDecrypt # NoCall
    /\ lastDecrypt.stored
    /\ lastDecrypt.input.honest
    /\ lastDecrypt.input.by # me
    /\ \E c \in conversations :
          /\ c.id = messages[Len(messages)].conversationId
          /\ c.title = "Contact"
          /\ c.recipientPublicKey = Identity(lastDecrypt.input.by)

ExpoOutcomes == {"ok", "error", "throws"}

DeliveryAlterations == {"none", "junkSignature"}

\* app.post('/send') up to its await, on the request client c posts now: a
\* request that fails a check is answered at once; for any other the push
\* message is built from the row just looked up and handed to Expo.
SendCall(c, d, alt) ==
    /\ Len(deliveries) < MaxDeliveries
    /\ LET req == Altered(clientRequest(c, d, "hi", now), alt)
           r == sendChecks(req, now, recipients)
       IN IF r.status = 200
          THEN LET recipient == CHOOSE x \in Lookup(recipients, req.destination) : TRUE
               IN /\ deliveries' = Append(deliveries,
                                          [push |-> pushMessage(req, recipient), req |-> req])
                  /\ pending' = pending \cup {[call |-> Len(deliveries) + 1, req |-> req,
                                               at |-> now, steps |-> r.steps]}
                  /\ lastSend' = NoCall
          ELSE /\ deliveries' = deliveries
               /\ pending' = pending
               /\ lastSend' = [req |-> req, at |-> now, status |-> r.status,
                               error |-> r.error, steps |-> r.steps]
    /\ lastCleanup' = NoCall
    /\ UNCHANGED <<now, recipients, clientVars, keyVars, sendVars, deviceVars>>

\* app.post('/send') after its await: Expo has answered the call.  A ticket,
\* whatever its status, is sent back with success: true; a rejection is
\* caught and answered 500.
SendSettle(call, outcome) ==
    /\ \E p \in pending :
          /\ p.call = call
          /\ pending' = pending \ {p}
          /\ lastSend' = [req |-> p.req, at |-> p.at, steps |-> p.steps,
                          call |-> p.call, expo |-> outcome,
                          status |-> IF outcome = "throws" THEN 500 ELSE 200,
                          success |-> outcome # "throws",
                          error |-> IF outcome = "throws"
                                    THEN "Failed to send notification" ELSE ""]
    /\ lastCleanup' = NoCall
    /\ UNCHANGED <<now, recipients, deliveries, clientVars, keyVars, sendVars, deviceVars>>

\* The start, a moment later, and more than 24 hours later.
DeliveryTimePoints == {StartTime + 1000, StartTime + DayMs + 2000}

NextDelivery ==
    \/ \E u \in Registrants, token \in Tokens : Register(u, token)
    \/ \E k \in CleanupKeyNames : Cleanup(k)
    \/ \E t \in DeliveryTimePoints : Tick(t)
    \/ \E c \in Senders, d \in Recipients, alt \in DeliveryAlterations : SendCall(c, d, alt)
    \/ \E call \in 1..MaxDeliveries, outcome \in ExpoOutcomes : SendSettle(call, outcome)

SpecDelivery == InitRelay /\ [][NextDelivery]_vars

\* C22: the relay calls Expo at most once for an accepted request: a step
\* makes at most one call, and the step that answers a request makes none,
\* also when the delivery failed; and a delivery that failed (Expo rejected
\* the call, or returned a ticket of status "error") is answered as a failure.
C22_OneAttemptFailureReported ==
    [][/\ Len(deliveries') <= Len(deliveries) + 1
       /\ (pending' # pending /\ pending' \subseteq pending) => deliveries' = deliveries
       /\ (lastSend' # NoCall /\ "expo" \in DOMAIN lastSend' /\ lastSend'.expo # "ok")
             => (~lastSend'.success /\ lastSend'.status >= 400)]_vars

\* C23: every call to Expo is addressed to the token the directory holds for
\* the request's destination in the turn that looks it up, and a call already
\* made keeps its address whatever /register and /cleanup do to the directory
\* while the call is in flight.
C23_AddressedToLookedUpToken ==
    [][/\ SubSeq(deliveries', 1, Len(deliveries)) = deliveries
       /\ Len(deliveries') > Len(deliveries)
             => LET d == deliveries'[Len(deliveries')]
                IN \E r \in recipients :
                      /\ r.recipient_id = d.req.destination
                      /\ d.push.to = r.expo_push_token]_vars

\* A call in flight to the token of an identity that a cleanup has removed
\* from the directory since the call was made.
C23_Witness ==
    /\ lastCleanup # NoCall
    /\ lastCleanup.status = 200
    /\ lastCleanup.deletedCount = 1
    /\ \E p \in pending :
          /\ ~Registered(p.req.destination)
          /\ deliveries[p.call].push.to \in Tokens

(***************************************************************************)
(* The key store (utils/keys): the key pair lives in two SecureStore       *)
(* items, written by getKeys at first use and by regenerateKeys, deleted   *)
(* by clearKeys.  `me` is the seed of the stored pair, NoSeed when the     *)
(* items are absent; every run of generateKeyPair draws a new seed.        *)
(***************************************************************************)
MaxKeys == 3

NoSeed == "none"

\* The seed Crypto.getRandomBytes gives the n-th key pair made on the device.
KeySeed(n) == "k" \o ToString(n)

\* SecureStore answers a call or throws.
StorageOutcomes == {"ok", "error"}

\* getKeys on a store that holds the pair of seed `stored` (or nothing),
\* after `made` runs of generateKeyPair: the stored pair; a new pair, stored,
\* when the items are absent; a new pair that is not stored when SecureStore
\* throws (the catch branch).
getKeysOutcome(stored, made, storage) ==
    IF storage = "ok" /\ stored # NoSeed
    THEN [keys |-> getKeys(stored), stored |-> stored, made |-> made]
    ELSE [keys |-> generateKeyPair(KeySeed(made + 1)),
          stored |-> IF storage = "ok" THEN KeySeed(made + 1) ELSE stored,
          made |-> made + 1]

\* A call of getKeys, from any screen.
GetKeys(storage) ==
    /\ LET out == getKeysOutcome(me, generated, storage)
       IN /\ out.made <= MaxKeys
          /\ me' = out.stored
          /\ generated' = out.made
          /\ returned' = returned \cup {out.keys.publicKey}
          /\ lastKeys' = [storage |-> storage, keys |-> out.keys, stored |-> out.stored]
    /\ UNCHANGED <<net, lastDecrypt, conversations, messages, relayVars, pending, sendVars, deviceVars>>

\* The user adds a contact: createConversation of the hook, which calls
\* getKeys for the local identity and files the conversation under the id of
\* that identity and the contact's.
AddContact(peer, storage) ==
    /\ LET out == getKeysOutcome(me, generated, storage)
       IN /\ out.made <= MaxKeys
          /\ me' = out.stored
          /\ generated' = out.made
          /\ returned' = returned \cup {out.keys.publicKey}
          /\ lastKeys' = [storage |-> storage, keys |-> out.keys, stored |-> out.stored]
          /\ conversations' = createConversation(conversations, out.keys.publicKey,
                                                 "Contact", Identity(peer), toISOString(1))
    /\ UNCHANGED <<net, lastDecrypt, messages, relayVars, pending, sendVars, deviceVars>>

\* regenerateKeys: a new pair replaces the stored one.
RegenerateKeys ==
    /\ generated < MaxKeys
    /\ generated' = generated + 1
    /\ me' = KeySeed(generated + 1)
    /\ returned' = {}
    /\ lastKeys' = NoCall
    /\ UNCHANGED <<net, lastDecrypt, conversations, messages, relayVars, pending, sendVars, deviceVars>>

\* clearKeys: both items are deleted.
ClearKeys ==
    /\ me # NoSeed
    /\ me' = NoSeed
    /\ returned' = {}
    /\ lastKeys' = NoCall
    /\ UNCHANGED <<generated, net, lastDecrypt, conversations, messages, relayVars, pending, sendVars, deviceVars>>

\* A fresh installation: no key pair yet.
InitKeys ==
    /\ me = NoSeed
    /\ net = NoNotification
    /\ lastDecrypt = NoCall
    /\ conversations = {}
    /\ messages = << >>
    /\ InitRelayVars

Contacts == {"alice", "bob"}

NextKeys ==
    \/ \E storage \in StorageOutcomes : GetKeys(storage)
    \/ \E peer \in Contacts, storage \in StorageOutcomes : AddContact(peer, storage)
    \/ RegenerateKeys
    \/ ClearKeys

SpecKeys == InitKeys /\ [][NextKeys]_vars

\* C24: between two regenerations (regenerateKeys or clearKeys) every call
\* of getKeys returns the same identity, also when secure storage reports an
\* error.
C24_StableIdentity == Cardinality(returned) <= 1

(***************************************************************************)
(* The app's register and sendMessage (hooks/useBackend) against the       *)
(* relay.  The app is the sender's; a call of sendMessage is one action,   *)
(* with the relay's handling of each request the call posts.               *)
(***************************************************************************)
NoToken == "none"

\* The difference of the app's clock from the relay's: none, or more than
\* the relay tolerates.
ClockSkews == {0, TIMESTAMP_TOLERANCE + 1}

\* Milliseconds between the first post of a sendMessage and its retry.
RetryDelay == 1

\* What a post to /send meets: the relay, or a gateway in front of it that
\* answers 403 or 401 with a body of plain text.
HttpPaths == {"relay", "gateway403", "gateway401"}

\* The body of the relay's answer as axios hands it over: res.json(...),
\* parsed into an object.
relayBody(status, error) == [success |-> status = 200, error |-> error]

\* The relay's answer to a /send request; called: the request reached Expo.
relayAnswer(req, nowv, dir, expoOk) ==
    LET r == sendChecks(req, nowv, dir)
    IN IF r.status = 200 /\ ~expoOk
       THEN [status |-> 500, data |-> relayBody(500, "Failed to send notification"),
             called |-> TRUE]
       ELSE [status |-> r.status, data |-> relayBody(r.status, r.error),
             called |-> r.status = 200]

httpAnswer(path, req, nowv, dir, expoOk) ==
    CASE path = "relay" -> relayAnswer(req, nowv, dir, expoOk)
      [] path = "gateway403" ->
            [status |-> 403, data |-> [text |-> "Forbidden"], called |-> FALSE]
      [] path = "gateway401" ->
            [status |-> 401, data |-> [text |-> "Session expired"], called |-> FALSE]

\* typeof responseData === 'string' ? responseData : ''
errorTextOf(responseData) == IF isString(responseData) THEN responseData ELSE [text |-> ""]

\* String.prototype.includes on the texts of this model.
includes(text, word) == text = [text |-> "Session expired"] /\ word = "expired"

\* The condition under which sendMessage re-registers after a 401 or 403.
isRegistrationIssue(status, responseData) ==
    \/ includes(errorTextOf(responseData), "not registered")
    \/ includes(errorTextOf(responseData), "expired")
    \/ status = 403

\* register(pushToken) of the app of user c: POST /register with the app's
\* identity; when the relay answered, the token is kept in SecureStore.
AppRegister(c, token, regOk) ==
    /\ Len(deliveries) < MaxDeliveries
    /\ IF regOk
       THEN /\ recipients' = upsert(recipients, Identity(c), token, now)
            /\ pushToken' = token
       ELSE UNCHANGED <<recipients, pushToken>>
    /\ sendLog' = NoCall
    /\ lastSend' = NoCall
    /\ lastCleanup' = NoCall
    /\ UNCHANGED <<now, deliveries, clientVars, pending, keyVars, deviceVars>>

\* A retry that posts once more when the relay did not accept it.
retryPost_untilAccepted(req2, retryPath, nowv, dir2, called1, expoOk) ==
    LET a2 == httpAnswer(retryPath, req2, nowv, dir2, expoOk)
        a3 == httpAnswer("relay", req2, nowv, dir2, expoOk)
        called2 == IF a2.called
                   THEN Append(called1,
                               [push |-> pushMessage(req2, CHOOSE x \in Lookup(dir2, req2.destination) : TRUE),
                                req |-> req2])
                   ELSE called1
    IN IF a2.status = 200
       THEN [attempts |-> <<[req |-> req2, status |-> a2.status]>>,
             deliveries |-> called2,
             result |-> TRUE]
       ELSE [attempts |-> <<[req |-> req2, status |-> a2.status],
                            [req |-> req2, status |-> a3.status]>>,
             deliveries |-> called2,
             result |-> a3.status = 200]

\* The retry of sendMessage after a register that succeeded: one post of the
\* request stamped and signed anew; its answer decides the result.
retryPost(req2, retryPath, nowv, dir2, called1, expoOk) ==
    LET a2 == httpAnswer(retryPath, req2, nowv, dir2, expoOk)
    IN [attempts |-> <<[req |-> req2, status |-> a2.status]>>,
        deliveries |->
            IF a2.called
            THEN Append(called1,
                        [push |-> pushMessage(req2, CHOOSE x \in Lookup(dir2, req2.destination) : TRUE),
                         req |-> req2])
            ELSE called1,
        result |-> a2.status = 200]

\* sendMessage of the app of user c for destination d and an envelope from
\* encryptMessage: the post, and after a 401 or 403 that
\* isRegistrationIssue, with a stored push token and a register that
\* succeeded, the retry.  The result holds the relay's directory and the
\* calls to Expo afterwards, and what the call did.
sendMessage(c, d, envelope, skew, path, retryPath, regOk, expoOk) ==
    LET timestamp == now + skew
        req1 == OwnRequest(getKeys(c), d, envelope, Num(timestamp))
        a1 == httpAnswer(path, req1, now, recipients, expoOk)
        called1 ==
            IF a1.called
            THEN Append(deliveries,
                        [push |-> pushMessage(req1, CHOOSE x \in Lookup(recipients, req1.destination) : TRUE),
                         req |-> req1])
            ELSE deliveries
        registerTried == /\ a1.status \in {401, 403}
                         /\ isRegistrationIssue(a1.status, a1.data)
                         /\ pushToken # NoToken
        reregistered == registerTried /\ regOk
        dir2 == IF reregistered
                THEN upsert(recipients, Identity(c), pushToken, now)
                ELSE recipients
        retryTimestamp == timestamp + RetryDelay
        req2 == OwnRequest(getKeys(c), d, envelope, Num(retryTimestamp))
        retried == retryPost(req2, retryPath, now + RetryDelay, dir2, called1, expoOk)
    IN [recipients |-> dir2,
        deliveries |-> IF reregistered THEN retried.deliveries ELSE called1,
        log |-> [first |-> [req |-> req1, status |-> a1.status],
                 hadToken |-> pushToken # NoToken,
                 registerTried |-> registerTried,
                 reregistered |-> reregistered,
                 retry |-> IF reregistered THEN retried.attempts[1] ELSE NoCall,
                 attempts |-> IF reregistered
                              THEN <<[req |-> req1, status |-> a1.status]>> \o retried.attempts
                              ELSE <<[req |-> req1, status |-> a1.status]>>,
                 registrations |-> IF registerTried THEN 1 ELSE 0,
                 result |-> IF a1.status = 200 THEN TRUE
                            ELSE IF reregistered THEN retried.result
                            ELSE FALSE]]

\* A call of sendMessage by the app of user c.
SendMessage(c, d, skew, path, regOk, expoOk) ==
    /\ Len(deliveries) < MaxDeliveries
    /\ LET call == sendMessage(c, Identity(d),
                               encryptMessage(getKeys(c), "hi", Identity(d), 1, 1).message,
                               skew, path, "relay", regOk, expoOk)
       IN /\ recipients' = call.recipients
          /\ deliveries' = call.deliveries
          /\ sendLog' = call.log
    /\ lastSend' = NoCall
    /\ lastCleanup' = NoCall
    /\ UNCHANGED <<now, clientVars, pending, keyVars, pushToken, deviceVars>>

NextApp ==
    \/ \E token \in Tokens, regOk \in BOOLEAN : AppRegister("alice", token, regOk)
    \/ \E u \in Registrants, token \in Tokens : Register(u, token)
    \/ \E d \in Recipients, skew \in ClockSkews, path \in HttpPaths,
          regOk \in BOOLEAN, expoOk \in BOOLEAN :
          SendMessage("alice", d, skew, path, regOk, expoOk)

SpecApp == InitRelay /\ [][NextApp]_vars

\* C25: whenever the first post of a sendMessage is answered 401 or 403 and
\* the app has a stored push token, the app registers again with that token
\* and, once registered, posts the message again with a new timestamp and a
\* signature over it.
C25_RetryAfter401Or403 ==
    (sendLog # NoCall /\ sendLog.first.status \in {401, 403} /\ sendLog.hadToken)
        => /\ sendLog.registerTried
           /\ sendLog.reregistered
                 => /\ sendLog.retry # NoCall
                    /\ sendLog.retry.req.timestamp # sendLog.first.req.timestamp
                    /\ sendLog.retry.req.signature # sendLog.first.req.signature
                    /\ GenuinelySigned(sendLog.retry.req)

(***************************************************************************)
(* Emergency mode (AppContent, useShakeDetection, EmergencyCountdown):     *)
(* shakes are counted, the tenth shows the countdown, the countdown is     *)
(* cancelled or runs out and handleComplete wipes the device.  A state     *)
(* change is taken together with the render and the effects it causes;     *)
(* handleComplete and the notification listener are split at the awaits    *)
(* at which the other can run.                                             *)
(***************************************************************************)
SHAKE_TIME_WINDOW == 3000

SHAKE_COUNT_THRESHOLD == 10

COUNTDOWN_START == 5

COUNTDOWN_TICK == 1000

UPDATE_INTERVAL == 100

NoTimer == 0

\* Milliseconds of the device's clock that a behaviour covers.
MaxElapsed == 6500

\* Shakes counted while one countdown is shown.
MaxShownShakes == 2

DeviceStart == StartTime

MaxDeviceTime == DeviceStart + MaxElapsed

\* The time from one event on the device to a shake: one accelerometer
\* sample, the whole window, or more than the window.
ShakeGaps == {UPDATE_INTERVAL, SHAKE_TIME_WINDOW, SHAKE_TIME_WINDOW + 1}

\* The last SHAKE_COUNT_THRESHOLD entries of a sequence.
Recent(s) ==
    IF Len(s) <= SHAKE_COUNT_THRESHOLD THEN s
    ELSE SubSeq(s, Len(s) - SHAKE_COUNT_THRESHOLD + 1, Len(s))

\* A handleShake that never starts the count again.
countAfterGap_noReset(count, timeSinceLastShake) == count

\* handleShake: "Reset shake count if more than 3 seconds have passed".
countAfterGap(count, timeSinceLastShake) ==
    IF timeSinceLastShake > SHAKE_TIME_WINDOW THEN 0 ELSE count

\* handleShake as built by a render in which showEmergency was `shown`,
\* called at time nowD: the refs afterwards, whether the shake was counted
\* and whether setShowEmergency(true) was called.
handleShake(shown, count, last, nowD) ==
    IF shown
    THEN [shakeCount |-> count, lastShakeTime |-> last, counted |-> FALSE, show |-> FALSE]
    ELSE LET timeSinceLastShake == nowD - last
             counted == countAfterGap(count, timeSinceLastShake) + 1
         IN [shakeCount |-> IF counted >= SHAKE_COUNT_THRESHOLD THEN 0 ELSE counted,
             lastShakeTime |-> nowD,
             counted |-> TRUE,
             show |-> counted >= SHAKE_COUNT_THRESHOLD]

\* handleCancel: the refs afterwards.
handleCancel(count, last) == [shakeCount |-> 0, lastShakeTime |-> 0]

\* The effect of useShakeDetection when handleShake was rebuilt for
\* showEmergency = shown: its cleanup removes the subscription that the
\* render of the previous run saw, then the new handleShake is subscribed.
shakeEffect(shown) ==
    [subscribed |-> (subscribed \ captured) \cup {shown},
     captured |-> subscription,
     subscription |-> {shown}]

\* An effect of EmergencyCountdown whose cleanup leaves the timer set.
countdownEffect_timerKept(visible, count, nowD) ==
    IF ~visible
    THEN [countdown |-> COUNTDOWN_START, interval |-> interval]
    ELSE [countdown |-> count, interval |-> nowD + COUNTDOWN_TICK]

\* The effect of EmergencyCountdown after `visible` changed, at time nowD:
\* its cleanup clears the timer; hidden, the countdown is set back; shown, a
\* timer is set.
countdownEffect(visible, count, nowD) ==
    IF ~visible
    THEN [countdown |-> COUNTDOWN_START, interval |-> NoTimer]
    ELSE [countdown |-> count, interval |-> nowD + COUNTDOWN_TICK]

\* resetDatabase: both tables are dropped and created again.
resetDatabase == [conversations |-> {}, messages |-> << >>]

\* An accelerometer sample above the threshold, `gap` ms after the last
\* event on the device: every subscribed listener calls its handleShake.
Shake(gap) ==
    /\ deviceTime + gap <= MaxDeviceTime
    /\ interval = NoTimer \/ deviceTime + gap < interval
    /\ ~showEmergency \/ sinceReset < MaxShownShakes
    /\ LET nowD == deviceTime + gap
           call == IF FALSE \in subscribed
                   THEN handleShake(FALSE, shakeCount, lastShakeTime, nowD)
                   ELSE handleShake(TRUE, shakeCount, lastShakeTime, nowD)
           shows == call.show /\ ~showEmergency
           afterGap == shakeTimes # << >>
                       /\ nowD - shakeTimes[Len(shakeTimes)] > SHAKE_TIME_WINDOW
       IN /\ deviceTime' = nowD
          /\ shakeCount' = call.shakeCount
          /\ lastShakeTime' = call.lastShakeTime
          /\ shakeTimes' = IF call.counted THEN Recent(Append(shakeTimes, nowD))
                           ELSE shakeTimes
          /\ sinceReset' = IF shows THEN 0
                           ELSE IF ~call.counted THEN sinceReset
                           ELSE IF afterGap THEN 1
                           ELSE sinceReset + 1
          /\ showEmergency' = (showEmergency \/ call.show)
          /\ IF shows
             THEN /\ subscribed' = shakeEffect(TRUE).subscribed
                  /\ captured' = shakeEffect(TRUE).captured
                  /\ subscription' = shakeEffect(TRUE).subscription
                  /\ interval' = countdownEffect(TRUE, countdown, nowD).interval
                  /\ countdown' = countdownEffect(TRUE, countdown, nowD).countdown
                  /\ activations' = Append(activations, [cancelled |-> FALSE, completed |-> FALSE,
                                                      left |-> COUNTDOWN_START])
             ELSE UNCHANGED <<subscribed, captured, subscription, interval, countdown, activations>>
    /\ UNCHANGED <<clientVars, relayVars, pending, keyVars, sendVars, wipeVars, storeVars, flowVars>>

\* The user presses Cancel on the countdown.
Cancel ==
    /\ showEmergency
    /\ showEmergency' = FALSE
    /\ shakeCount' = handleCancel(shakeCount, lastShakeTime).shakeCount
    /\ lastShakeTime' = handleCancel(shakeCount, lastShakeTime).lastShakeTime
    /\ sinceReset' = 0
    /\ subscribed' = shakeEffect(FALSE).subscribed
    /\ captured' = shakeEffect(FALSE).captured
    /\ subscription' = shakeEffect(FALSE).subscription
    /\ interval' = countdownEffect(FALSE, countdown, deviceTime).interval
    /\ countdown' = countdownEffect(FALSE, countdown, deviceTime).countdown
    /\ activations' = [activations EXCEPT ![Len(activations)].cancelled = TRUE,
                                          ![Len(activations)].left = countdown]
    /\ UNCHANGED <<deviceTime, shakeTimes, clientVars, relayVars, pending, keyVars,
                   sendVars, wipeVars, storeVars, flowVars>>

\* The countdown's timer fires.  At 1 the updater clears the timer and calls
\* onComplete: handleComplete hides the countdown and runs resetDatabase up
\* to its await.
CountdownTick ==
    /\ interval # NoTimer
    /\ deviceTime' = interval
    /\ IF countdown <= 1
       THEN /\ showEmergency' = FALSE
            /\ subscribed' = shakeEffect(FALSE).subscribed
            /\ captured' = shakeEffect(FALSE).captured
            /\ subscription' = shakeEffect(FALSE).subscription
            /\ interval' = countdownEffect(FALSE, 0, interval).interval
            /\ countdown' = countdownEffect(FALSE, 0, interval).countdown
            /\ conversations' = resetDatabase.conversations
            /\ messages' = resetDatabase.messages
            /\ completing' = completing \cup {Len(activations)}
            /\ wipeLog' = Append(wipeLog, [activation |-> Len(activations),
                                           step |-> "resetDatabase"])
            /\ activations' = [activations EXCEPT ![Len(activations)].completed = TRUE,
                                                  ![Len(activations)].left = 0]
       ELSE /\ countdown' = countdown - 1
            /\ interval' = interval + COUNTDOWN_TICK
            /\ UNCHANGED <<showEmergency, subscribed, captured, subscription,
                           conversations, messages, completing, wipeLog, activations>>
    /\ UNCHANGED <<shakeCount, lastShakeTime, shakeTimes, sinceReset, me, net, lastDecrypt,
                   relayVars, pending, keyVars, sendVars, listener, storeVars, flowVars>>

\* handleComplete of activation n goes on after resetDatabase: clearKeys.
WipeClearKeys(n) ==
    /\ n \in completing
    /\ completing' = completing \ {n}
    /\ me' = NoSeed
    /\ returned' = {}
    /\ lastKeys' = NoCall
    /\ wipeLog' = Append(wipeLog, [activation |-> n, step |-> "clearKeys"])
    /\ UNCHANGED <<net, lastDecrypt, conversations, messages, relayVars, pending, generated,
                   sendVars, shakeVars, countdownVars, listener, storeVars, flowVars>>

\* The notification listener up to its await of getKeys: decryptMessage.
ReceiveDecrypt ==
    /\ net # NoNotification
    /\ listener = NoCall
    /\ LET out == getKeysOutcome(me, generated, "ok")
           call == decryptMessage(out.keys, net.data)
       IN /\ out.made <= MaxKeys
          /\ me' = out.stored
          /\ generated' = out.made
          /\ returned' = returned \cup {out.keys.publicKey}
          /\ lastKeys' = [storage |-> "ok", keys |-> out.keys, stored |-> out.stored]
          /\ lastDecrypt' = [input |-> net, isValid |-> call.isValid,
                             decryptAttempted |-> call.decryptAttempted,
                             result |-> call.result,
                             stored |-> FALSE]
          /\ listener' = IF call.result = Null THEN NoCall ELSE call.result
    /\ net' = NoNotification
    /\ UNCHANGED <<conversations, messages, relayVars, pending, sendVars, shakeVars,
                   countdownVars, completing, wipeLog, storeVars, flowVars>>

\* The notification listener from its getKeys on: insertReceivedMessage.
ReceiveStore ==
    /\ listener # NoCall
    /\ LET out == getKeysOutcome(me, generated, "ok")
           conversationId ==
               generateConversationId(out.keys.publicKey, listener.senderPublicKey)
           res == insertReceivedMessage(conversations, messages, listener.message,
                                        conversationId, listener.senderPublicKey,
                                        toISOString(listener.timestamp))
       IN /\ out.made <= MaxKeys
          /\ me' = out.stored
          /\ generated' = out.made
          /\ returned' = returned \cup {out.keys.publicKey}
          /\ lastKeys' = [storage |-> "ok", keys |-> out.keys, stored |-> out.stored]
          /\ conversations' = res.conversations
          /\ messages' = res.messages
    /\ listener' = NoCall
    /\ UNCHANGED <<net, lastDecrypt, relayVars, pending, sendVars, shakeVars,
                   countdownVars, completing, wipeLog, storeVars, flowVars>>

\* The device of bob, its app mounted, its key pair stored.
InitEmergency ==
    /\ me = "bob"
    /\ net = NoNotification
    /\ lastDecrypt = NoCall
    /\ conversations = {}
    /\ messages = << >>
    /\ now = 0   \* the relay is not part of this specification
    /\ recipients = {}
    /\ deliveries = << >>
    /\ lastSend = NoCall
    /\ lastCleanup = NoCall
    /\ pending = {}
    /\ generated = 0
    /\ returned = {}
    /\ lastKeys = NoCall
    /\ pushToken = NoToken
    /\ sendLog = NoCall
    /\ InitDevice(DeviceStart)

\* Shaking at any pace, without notifications.
NextShake ==
    \/ \E gap \in ShakeGaps : Shake(gap)
    \/ Cancel
    \/ CountdownTick
    \/ \E n \in 1..Len(activations) : WipeClearKeys(n)

SpecShake == InitEmergency /\ [][NextShake]_vars

\* Steady shaking, with notifications arriving.
NextEmergency ==
    \/ Shake(UPDATE_INTERVAL)
    \/ Cancel
    \/ CountdownTick
    \/ \E n \in 1..Len(activations) : WipeClearKeys(n)
    \/ PeerSends("alice", "bob", "hi", 1, 1)
    \/ ReceiveDecrypt
    \/ ReceiveStore

SpecEmergency == InitEmergency /\ [][NextEmergency]_vars

\* C26: the countdown is shown only if the 10 most recent counted shakes all
\* lie inside one span of 3 seconds.
C26_TenShakesWithinWindow ==
    [][(~showEmergency /\ showEmergency')
          => /\ Len(shakeTimes') = SHAKE_COUNT_THRESHOLD
             /\ shakeTimes'[SHAKE_COUNT_THRESHOLD] - shakeTimes'[1] <= SHAKE_TIME_WINDOW]_vars

\* C27: the counter starts again when more than 3 seconds lie between two
\* consecutive shakes, when the countdown is triggered and when it is
\* cancelled, and it never holds a shake counted before such a reset.
C27_CounterResets ==
    [][/\ shakeCount' <= sinceReset'
       /\ (~showEmergency /\ showEmergency') => shakeCount' = 0
       /\ (activations # << >> /\ activations' # activations
              /\ activations'[Len(activations)].cancelled)
             => shakeCount' = 0
       /\ (shakeTimes # << >> /\ shakeTimes' # shakeTimes
              /\ shakeTimes'[Len(shakeTimes')] - shakeTimes[Len(shakeTimes)]
                    > SHAKE_TIME_WINDOW)
             => shakeCount' = 1]_vars

\* After a countdown was cancelled, a shake was counted and the next one
\* came more than 3 seconds later.
C27_Witness ==
    /\ activations # << >>
    /\ activations[1].cancelled
    /\ ~showEmergency
    /\ shakeCount = 1
    /\ Len(shakeTimes) >= 2
    /\ shakeTimes[Len(shakeTimes)] - shakeTimes[Len(shakeTimes) - 1] > SHAKE_TIME_WINDOW
    /\ shakeTimes[Len(shakeTimes) - 1] > DeviceStart + COUNTDOWN_TICK

WipeSteps(log, n, s) == {i \in 1..Len(log) : log[i].activation = n /\ log[i].step = s}

\* C29: for a countdown that completed, resetDatabase and clearKeys run once
\* each, and when handleComplete is through no conversation, no message and
\* no stored key pair is left.
C29_WipeOnceAndComplete ==
    [][/\ \A n \in 1..Len(activations') :
             (activations'[n].completed /\ n \notin completing')
                => /\ Cardinality(WipeSteps(wipeLog', n, "resetDatabase")) = 1
                   /\ Cardinality(WipeSteps(wipeLog', n, "clearKeys")) = 1
       /\ (completing' # completing /\ completing' \subseteq completing)
             => /\ conversations' = {}
                /\ messages' = << >>
                /\ me' = NoSeed]_vars

(***************************************************************************)
(* The conversations and messages of the device (hooks/useConversations,   *)
(* MessagesProvider): conversations are added and deleted, messages are    *)
(* written by the user and by the notification listener.  The providers    *)
(* and utils/database open app.db by its name and share its connection.    *)
(***************************************************************************)
\* The ids that createItem may hand out.
MaxItems == 3

\* A deleteConversation that leaves the messages alone.
deleteConversation_noCascade(convs, msgs, id, fk) ==
    [conversations |-> {c \in convs : c.id # id}, messages |-> msgs]

\* deleteConversation: DELETE FROM conversations WHERE id = ?; with foreign
\* keys on, ON DELETE CASCADE deletes the messages that refer to the row.
deleteConversation(convs, msgs, id, fk) ==
    [conversations |-> {c \in convs : c.id # id},
     messages |-> IF fk /\ id \in ConversationIds(convs)
                  THEN SelectSeq(msgs, LAMBDA m : m.conversationId # id)
                  ELSE msgs]

\* deleteAllConversations: DELETE FROM conversations.
deleteAllConversations(convs, msgs, fk) ==
    [conversations |-> {},
     messages |-> IF fk
                  THEN SelectSeq(msgs, LAMBDA m : m.conversationId \notin ConversationIds(convs))
                  ELSE msgs]

\* createItem: INSERT INTO messages, refused by the foreign key when the
\* conversation does not exist (the error is caught and the UPDATE is not
\* reached); then the conversation's lastMessage and updatedAt are set.
createItem(convs, msgs, value, convId, createdAt, fk) ==
    IF fk /\ convId \notin ConversationIds(convs)
    THEN [conversations |-> convs, messages |-> msgs]
    ELSE [conversations |->
              {IF c.id = convId
               THEN [id |-> c.id,
                     title |-> c.title,
                     recipientPublicKey |-> c.recipientPublicKey,
                     lastMessage |-> value,
                     createdAt |-> c.createdAt,
                     updatedAt |-> createdAt]
               ELSE c : c \in convs},
          messages |-> Append(msgs, [id |-> NextItemId(msgs),
                                     value |-> value,
                                     conversationId |-> convId,
                                     createdAt |-> createdAt])]

\* The ids under which this device files its contacts.
ContactConversationIds ==
    {generateConversationId(getKeys("bob").publicKey, Identity(peer)) : peer \in Contacts}

\* The user deletes a conversation of the list.
DeleteConversation(id) ==
    /\ id \in ConversationIds(conversations)
    /\ LET res == deleteConversation(conversations, messages, id, foreignKeys)
       IN /\ conversations' = res.conversations
          /\ messages' = res.messages
          /\ lastDelete' = [id |-> id,
                            had |-> Len(SelectSeq(messages, LAMBDA m : m.conversationId = id)),
                            others |-> Len(SelectSeq(messages, LAMBDA m : m.conversationId # id))]
    /\ UNCHANGED <<me, net, lastDecrypt, relayVars, pending, keyVars, sendVars,
                   shakeVars, countdownVars, wipeVars, foreignKeys, flowVars>>

\* The user deletes all conversations.
DeleteAllConversations ==
    /\ conversations # {}
    /\ LET res == deleteAllConversations(conversations, messages, foreignKeys)
       IN /\ conversations' = res.conversations
          /\ messages' = res.messages
    /\ lastDelete' = NoCall
    /\ UNCHANGED <<me, net, lastDecrypt, relayVars, pending, keyVars, sendVars,
                   shakeVars, countdownVars, wipeVars, foreignKeys, flowVars>>

\* The messages screen of conversation convId stores what the user sent;
\* the conversation may have been deleted since the screen was opened.
CreateItem(convId) ==
    /\ NextItemId(messages) <= MaxItems
    /\ LET res == createItem(conversations, messages, "yo", convId, toISOString(2),
                             foreignKeys)
       IN /\ conversations' = res.conversations
          /\ messages' = res.messages
    /\ lastDelete' = NoCall
    /\ UNCHANGED <<me, net, lastDecrypt, relayVars, pending, keyVars, sendVars,
                   shakeVars, countdownVars, wipeVars, foreignKeys, flowVars>>

InitStore ==
    /\ me = "bob"
    /\ net = NoNotification
    /\ lastDecrypt = NoCall
    /\ conversations = {}
    /\ messages = << >>
    /\ InitRelayVars

NextStore ==
    \/ \E peer \in Contacts : AddContact(peer, "ok")
    \/ \E a \in Contacts : PeerSends(a, "bob", "hi", 1, 1)
    \/ Receive
    \/ \E convId \in ContactConversationIds : CreateItem(convId)
    \/ \E id \in ContactConversationIds : DeleteConversation(id)
    \/ DeleteAllConversations

SpecStore == InitStore /\ [][NextStore]_vars

\* C30: when a conversation is deleted none of its messages remains, and
\* every stored message refers to a conversation of the table.
C30_DeleteCascades ==
    [][/\ \A id \in ConversationIds(conversations) \ ConversationIds(conversations') :
             \A i \in 1..Len(messages') : messages'[i].conversationId # id
       /\ \A i \in 1..Len(messages') :
             messages'[i].conversationId \in ConversationIds(conversations')]_vars

\* deleteConversation has deleted a conversation with two messages and left
\* the message of another conversation.
C30_Witness ==
    /\ lastDelete # NoCall
    /\ lastDelete.had = 2
    /\ lastDelete.others = 1
    /\ Len(messages) = 1
    /\ messages[1].conversationId # lastDelete.id
    /\ lastDelete.id \notin ConversationIds(conversations)

(***************************************************************************)
(* Notifications delivered more than once: the push service, or a replay   *)
(* of the /send request at the relay, hands the listener a notification    *)
(* that it has handled before.                                             *)
(***************************************************************************)
\* The notification the listener handled last arrives again.
Redeliver ==
    /\ net = NoNotification
    /\ lastDecrypt # NoCall
    /\ Len(messages) <= MaxStored
    /\ net' = lastDecrypt.input
    /\ UNCHANGED <<me, lastDecrypt, conversations, messages, relayVars, appVars>>

NextReplay ==
    \/ \E a \in Users, m \in Messages, t \in ClientTimes, n \in Nonces :
          PeerSends(a, me, m, t, n)
    \/ Receive
    \/ Redeliver

SpecReplay == InitCipher /\ [][NextReplay]_vars

\* C31: a notification whose message the listener has stored is not stored
\* again when it is delivered a second time.
C31_NoReplayAtRecipient ==
    [][(/\ lastDecrypt # NoCall
        /\ lastDecrypt.stored
        /\ net = lastDecrypt.input
        /\ net' = NoNotification)
          => messages' = messages]_vars

(***************************************************************************)
(* Regenerating the key pair on the profile screen.                        *)
(***************************************************************************)
\* deleteAllData: every row of messages and of conversations is deleted.
deleteAllData == [conversations |-> {}, messages |-> << >>]

\* handleRegenerateKeys, confirmed in the alert, up to its await of
\* regenerateKeys: deleteAllData has run.
RegenerateDelete ==
    /\ IF regenerating = NoCall THEN TRUE ELSE regenerating.step = "done"
    /\ generated < MaxKeys
    /\ conversations' = deleteAllData.conversations
    /\ messages' = deleteAllData.messages
    /\ regenerating' = [step |-> "regenerateKeys", old |-> me, registered |-> FALSE]
    /\ UNCHANGED <<me, net, lastDecrypt, relayVars, pending, keyVars, sendVars,
                   shakeVars, countdownVars, wipeVars, storeVars,
                   secureStore, keyCalls, lastScan>>

\* handleRegenerateKeys goes on: regenerateKeys stores a new pair.
RegenerateStore ==
    /\ regenerating # NoCall
    /\ regenerating.step = "regenerateKeys"
    /\ generated' = generated + 1
    /\ me' = KeySeed(generated + 1)
    /\ returned' = {}
    /\ lastKeys' = NoCall
    /\ regenerating' = [regenerating EXCEPT !.step = "register"]
    /\ UNCHANGED <<net, lastDecrypt, conversations, messages, relayVars, pending, sendVars,
                   shakeVars, countdownVars, wipeVars, storeVars,
                   secureStore, keyCalls, lastScan>>

\* handleRegenerateKeys ends: with a stored push token, register(pushToken)
\* reads the identity with getKeys and posts it to the relay, which answers
\* or does not.
RegenerateRegister(regOk) ==
    /\ regenerating # NoCall
    /\ regenerating.step = "register"
    /\ LET out == getKeysOutcome(me, generated, "ok")
           registers == pushToken # NoToken /\ regOk
       IN /\ out.made <= MaxKeys
          /\ IF pushToken # NoToken
             THEN /\ me' = out.stored
                  /\ generated' = out.made
                  /\ returned' = returned \cup {out.keys.publicKey}
                  /\ lastKeys' = [storage |-> "ok", keys |-> out.keys, stored |-> out.stored]
             ELSE UNCHANGED <<me, keyVars>>
          /\ recipients' = IF registers
                           THEN upsert(recipients, out.keys.publicKey, pushToken, now)
                           ELSE recipients
          /\ regenerating' = [regenerating EXCEPT !.step = "done", !.registered = registers]
    /\ lastSend' = NoCall
    /\ lastCleanup' = NoCall
    /\ UNCHANGED <<net, lastDecrypt, conversations, messages, now, deliveries, pending,
                   sendVars, shakeVars, countdownVars, wipeVars, storeVars,
                   secureStore, keyCalls, lastScan>>

\* The device of bob, its key pair stored; the peers write to the identity it
\* has at the start.
InitRegenerate == InitEmergency

NextRegenerate ==
    \/ RegenerateDelete
    \/ RegenerateStore
    \/ \E regOk \in BOOLEAN : RegenerateRegister(regOk)
    \/ \E m \in Messages : PeerSends("alice", "bob", m, 1, 1)
    \/ ReceiveDecrypt
    \/ ReceiveStore

SpecRegenerate == InitRegenerate /\ [][NextRegenerate]_vars

\* C32: once a regeneration of the key pair has completed, no conversation
\* and no message remains that the device created or received under the
\* identity it had before (every notification of this specification is
\* encrypted to that identity), also when a notification arrives while the
\* regeneration runs.
C32_RegenerationLeavesNothing ==
    (/\ regenerating # NoCall
     /\ regenerating.step = "done"
     /\ regenerating.old = "bob")
        => /\ conversations = {}
           /\ messages = << >>

(***************************************************************************)
(* Pairing: the QR scanner and the conversation it creates.                *)
(***************************************************************************)
\* What a QR code can hold: the JSON text of an identity, a JSON text that
\* lacks a key or holds a key of 62 characters, a single string of 64 hex
\* characters (the old format) with a letter in it or made of decimal digits
\* only, and other text.
ScanKinds == {"alice", "bob", "noX25519", "shortKey", "hexLetters", "hexDigits", "junk"}

ScannedText(kind) ==
    CASE kind \in Users -> JSONstringify(Identity(kind))
      [] kind = "noX25519" -> JSONstringify([ed25519 |-> Identity("bob").ed25519])
      [] kind = "shortKey" ->
            JSONstringify([ed25519 |-> [edpub |-> "bob", short |-> TRUE],
                           x25519 |-> Identity("bob").x25519])
      [] kind = "hexLetters" -> [text |-> "hex", hex64 |-> TRUE]
      \* JSON.parse reads 64 decimal digits as a number
      [] kind = "hexDigits" -> [json |-> [number |-> TRUE], hex64 |-> TRUE]
      [] OTHER -> [text |-> "junk"]

\* /^[a-fA-F0-9]{64}$/.test(v) for a value v of the scanned text: a key as
\* toHex writes it, or the whole text in the old format; false for undefined.
isHex64(v) ==
    \/ DOMAIN v \cap {"edpub", "xpub"} # {} /\ "short" \notin DOMAIN v
    \/ "hex64" \in DOMAIN v

\* parsed[field] in JavaScript: undefined when the parsed value has no such
\* property (a number has none).
Property(parsed, field) == IF field \in DOMAIN parsed THEN parsed[field] ELSE Undefined

\* The try block of handleBarCodeScanned: it passes without a throw.
isNewFormat(data) ==
    /\ JSONcanParse(data)
    /\ Property(JSONparse(data), "ed25519") # Undefined
    /\ Property(JSONparse(data), "x25519") # Undefined
    /\ isHex64(Property(JSONparse(data), "ed25519"))
    /\ isHex64(Property(JSONparse(data), "x25519"))

\* handleBarCodeScanned keeps the data without an alert: the new format, or
\* in the catch block the old format of a single string of 64 hex characters.
acceptsScan(data) == isNewFormat(data) \/ isHex64(data)

\* handleBarCodeScanned: the data is kept in scannedData; the alert
\* 'Invalid QR Code' is shown over the scanner for data it does not accept.
handleBarCodeScanned(data) ==
    [scanned |-> TRUE, scannedData |-> data, alert |-> ~acceptsScan(data)]

\* generateConversationId on the texts as stored: JSON.parse of the scanned
\* text throws; the ed25519 property of a parsed value that has none is
\* undefined, which Array.prototype.sort puts last and + writes out.
scannedConversationId(localPublicKey, recipientPublicKey) ==
    LET k2 == Property(JSONparse(recipientPublicKey), "ed25519")
    IN IF k2 = Undefined
       THEN [sha256 |-> <<localPublicKey.ed25519, [str |-> "undefined"]>>]
       ELSE generateConversationId(localPublicKey, [ed25519 |-> k2])

\* createConversation(title, recipientPublicKey) with the scanned text: a
\* throw of generateConversationId or of the INSERT (the id exists) is
\* caught and the table stays; else the row holds the text as scanned.
createScannedConversation(convs, localPublicKey, title, recipientPublicKey, nowIso) ==
    IF ~JSONcanParse(recipientPublicKey)
    THEN convs
    ELSE LET conversationId == scannedConversationId(localPublicKey, recipientPublicKey)
         IN IF conversationId \in ConversationIds(convs)
            THEN convs
            ELSE convs \cup {[id |-> conversationId,
                              title |-> title,
                              recipientPublicKey |-> recipientPublicKey,
                              createdAt |-> nowIso,
                              updatedAt |-> nowIso]}

\* The names typed for the conversation; trim() leaves the second empty.
ConversationNames == {"Bob", " "}

trim(text) == IF text = " " THEN "" ELSE text

\* The camera reads a QR code: handleBarCodeScanned, unless one was scanned.
BarCodeScanned(kind) ==
    /\ IF lastScan = NoCall THEN TRUE ELSE ~lastScan.scanned
    /\ lastScan' = handleBarCodeScanned(ScannedText(kind))
    /\ UNCHANGED <<clientVars, relayVars, pending, keyVars, sendVars,
                   shakeVars, countdownVars, wipeVars, storeVars,
                   regenerating, secureStore, keyCalls>>

\* OK in the alert 'Invalid QR Code': the scanner is ready again.
DismissInvalid ==
    /\ lastScan # NoCall
    /\ lastScan.alert
    /\ lastScan' = NoCall
    /\ UNCHANGED <<clientVars, relayVars, pending, keyVars, sendVars,
                   shakeVars, countdownVars, wipeVars, storeVars,
                   regenerating, secureStore, keyCalls>>

\* handleCreateConversation with the name typed, while no alert covers the
\* scanner: onScanComplete, that is createConversation, and handleClose.
ScanCreate(name) ==
    /\ lastScan # NoCall
    /\ ~lastScan.alert
    /\ IF trim(name) = ""
       THEN UNCHANGED <<conversations, lastScan>>
       ELSE /\ conversations' =
                  createScannedConversation(conversations, getKeys(me).publicKey,
                                            trim(name), lastScan.scannedData,
                                            toISOString(1))
            /\ lastScan' = NoCall
    /\ UNCHANGED <<me, net, lastDecrypt, messages, relayVars, pending, keyVars, sendVars,
                   shakeVars, countdownVars, wipeVars, storeVars,
                   regenerating, secureStore, keyCalls>>

NextScan ==
    \/ \E kind \in ScanKinds : BarCodeScanned(kind)
    \/ DismissInvalid
    \/ \E name \in ConversationNames : ScanCreate(name)

SpecScan == InitCipher /\ [][NextScan]_vars

\* C34: every conversation the scanner created stores as recipientPublicKey
\* a JSON text with an ed25519 and an x25519 key of 64 hex characters each.
C34_ScannedKeysAreValid ==
    \A c \in conversations : isNewFormat(c.recipientPublicKey)

(***************************************************************************)
(* The notification listener and notifications that fail verification.     *)
(***************************************************************************)
\* The fields of a notification's data that the listener asks for first.
RequiredFields == {"destination", "encryptedMessage"}

\* A push whose data lacks one of the fields reaches this device.
IncompleteSends(a, fld) ==
    /\ net = NoNotification
    /\ Len(messages) < MaxStored
    /\ net' = [data |-> [PeerNotification(a, me, "hi", 1, 1) EXCEPT ![fld] = Undefined],
               honest |-> FALSE, by |-> a, to |-> me, message |-> "hi", timestamp |-> 1,
               flipped |-> "none"]
    /\ lastDecrypt' = NoCall
    /\ UNCHANGED <<me, conversations, messages, relayVars, appVars>>

NextListener ==
    \/ \E a \in Users, m \in Messages : PeerSends(a, me, m, 1, 1)
    \/ \E victim \in Devices, mixed \in BOOLEAN, signed \in BOOLEAN :
          AttackerSends(victim, mixed, signed, me, "hi")
    \/ \E fld \in EnvelopeFields : Tamper(fld, 1)
    \/ \E a \in Users, fld \in RequiredFields : IncompleteSends(a, fld)
    \/ Receive

SpecListener == InitCipher /\ [][NextListener]_vars

\* A notification that fails a cryptographic verification: the listener
\* drops it, or its envelope signature does not verify under its origin.
VerificationFails(data) ==
    IF data.destination = Undefined \/ data.encryptedMessage = Undefined
    THEN TRUE
    ELSE \/ ~EnvelopeSignatureVerifies(data)
         \/ decryptMessage(getKeys(me), data).result = Null

ListenerDropsLeaveTables ==
    [][(/\ net # NoNotification
        /\ net' = NoNotification
        /\ IF net.data.destination = Undefined \/ net.data.encryptedMessage = Undefined
           THEN TRUE
           ELSE decryptMessage(getKeys(me), net.data).result = Null)
          => /\ messages' = messages
             /\ conversations' = conversations]_vars

(***************************************************************************)
(* SecureStore's two items PUBLIC_KEY and PRIVATE_KEY under calls of       *)
(* getKeys and regenerateKeys that run at the same time.  A key pair is    *)
(* named by its number (the n-th pair generateKeyPair made); 0 is an       *)
(* absent item.  Each await of SecureStore is a step of its own.           *)
(***************************************************************************)
NoItem == 0

\* The callers of getKeys that run side by side at launch.
KeyCallers == {"register", "refreshRegistrationIfNeeded"}

CallOf(caller) == CHOOSE call \in keyCalls : call.caller = caller

Running(caller) == \E call \in keyCalls : call.caller = caller

\* A caller begins getKeys.
StartGetKeys(caller) ==
    /\ ~Running(caller)
    /\ generated < MaxKeys
    /\ keyCalls' = keyCalls \cup {[caller |-> caller, at |-> "getPublic",
                                   publicKey |-> NoItem, pair |-> NoItem]}
    /\ UNCHANGED <<clientVars, relayVars, pending, keyVars, sendVars,
                   shakeVars, countdownVars, wipeVars, storeVars,
                   regenerating, secureStore, lastScan>>

\* getKeys: await SecureStore.getItemAsync(PUBLIC_KEY).
ReadPublicKey(caller) ==
    /\ Running(caller)
    /\ CallOf(caller).at = "getPublic"
    /\ keyCalls' = (keyCalls \ {CallOf(caller)}) \cup
                       {[CallOf(caller) EXCEPT !.at = "getPrivate",
                                               !.publicKey = secureStore.publicKey]}
    /\ UNCHANGED <<clientVars, relayVars, pending, keyVars, sendVars,
                   shakeVars, countdownVars, wipeVars, storeVars,
                   regenerating, secureStore, lastScan>>

\* getKeys: await SecureStore.getItemAsync(PRIVATE_KEY); with both items it
\* returns them as read, else generateKeyPair makes a pair to store.
ReadPrivateKey(caller) ==
    /\ Running(caller)
    /\ CallOf(caller).at = "getPrivate"
    /\ IF CallOf(caller).publicKey = NoItem \/ secureStore.privateKey = NoItem
       THEN /\ generated < MaxKeys
            /\ generated' = generated + 1
            /\ keyCalls' = (keyCalls \ {CallOf(caller)}) \cup
                               {[CallOf(caller) EXCEPT !.at = "setPublic",
                                                       !.pair = generated + 1]}
            /\ UNCHANGED lastKeys
       ELSE /\ keyCalls' = keyCalls \ {CallOf(caller)}
            /\ lastKeys' = [caller |-> caller,
                            publicKey |-> CallOf(caller).publicKey,
                            privateKey |-> secureStore.privateKey]
            /\ UNCHANGED generated
    /\ UNCHANGED <<clientVars, relayVars, pending, returned, sendVars,
                   shakeVars, countdownVars, wipeVars, storeVars,
                   regenerating, secureStore, lastScan>>

\* regenerateKeys begins: generateKeyPair makes the pair to store.
StartRegenerateKeys ==
    /\ ~Running("regenerateKeys")
    /\ generated < MaxKeys
    /\ generated' = generated + 1
    /\ keyCalls' = keyCalls \cup {[caller |-> "regenerateKeys", at |-> "setPublic",
                                   publicKey |-> NoItem, pair |-> generated + 1]}
    /\ UNCHANGED <<clientVars, relayVars, pending, returned, lastKeys, sendVars,
                   shakeVars, countdownVars, wipeVars, storeVars,
                   regenerating, secureStore, lastScan>>

\* getKeys or regenerateKeys: await SecureStore.setItemAsync(PUBLIC_KEY, ...).
StorePublicKey(caller) ==
    /\ Running(caller)
    /\ CallOf(caller).at = "setPublic"
    /\ secureStore' = [secureStore EXCEPT !.publicKey = CallOf(caller).pair]
    /\ keyCalls' = (keyCalls \ {CallOf(caller)}) \cup
                       {[CallOf(caller) EXCEPT !.at = "setPrivate"]}
    /\ UNCHANGED <<clientVars, relayVars, pending, keyVars, sendVars,
                   shakeVars, countdownVars, wipeVars, storeVars,
                   regenerating, lastScan>>

\* getKeys or regenerateKeys: await SecureStore.setItemAsync(PRIVATE_KEY, ...),
\* and the pair made is returned.
StorePrivateKey(caller) ==
    /\ Running(caller)
    /\ CallOf(caller).at = "setPrivate"
    /\ secureStore' = [secureStore EXCEPT !.privateKey = CallOf(caller).pair]
    /\ keyCalls' = keyCalls \ {CallOf(caller)}
    /\ lastKeys' = [caller |-> caller,
                    publicKey |-> CallOf(caller).pair,
                    privateKey |-> CallOf(caller).pair]
    /\ UNCHANGED <<clientVars, relayVars, pending, generated, returned, sendVars,
                   shakeVars, countdownVars, wipeVars, storeVars,
                   regenerating, lastScan>>

NextSecureStore ==
    \/ \E caller \in KeyCallers : StartGetKeys(caller)
    \/ \E caller \in KeyCallers : ReadPublicKey(caller)
    \/ \E caller \in KeyCallers : ReadPrivateKey(caller)
    \/ StartRegenerateKeys
    \/ \E caller \in KeyCallers \cup {"regenerateKeys"} : StorePublicKey(caller)
    \/ \E caller \in KeyCallers \cup {"regenerateKeys"} : StorePrivateKey(caller)

\* The first launch: SecureStore holds neither item.
SpecSecureStore == InitKeys /\ [][NextSecureStore]_vars

\* C36: in every state of SecureStore the stored public identity and the
\* stored private key are of the same generated pair.
C36_StoredPairMatches ==
    (secureStore.publicKey # NoItem /\ secureStore.privateKey # NoItem)
        => secureStore.publicKey = secureStore.privateKey

\* The same when every call has returned.
StoredPairMatchesAtRest == keyCalls = {} => C36_StoredPairMatches

\* getKeys returns the two halves of one pair.
ReturnedPairMatches ==
    (lastKeys # NoCall /\ "caller" \in DOMAIN lastKeys)
        => lastKeys.publicKey = lastKeys.privateKey

(***************************************************************************)
(* The messages of a conversation and its lastMessage.  A column that is   *)
(* NULL is a field the row does not have.                                  *)
(***************************************************************************)
\* The messages of conversation convId, in the order of their ids.
MessagesOf(msgs, convId) == SelectSeq(msgs, LAMBDA m : m.conversationId = convId)

\* SELECT value FROM messages WHERE conversationId = ? ORDER BY id DESC LIMIT 1
LatestValue(msgs, convId) ==
    LET own == MessagesOf(msgs, convId)
        top == CHOOSE i \in 1..Len(own) : \A j \in 1..Len(own) : own[j].id <= own[i].id
    IN own[top].value

\* UPDATE conversations SET lastMessage = NULL, updatedAt = ? WHERE id = ?
withoutLastMessage(c, updatedAt) ==
    [id |-> c.id, title |-> c.title, recipientPublicKey |-> c.recipientPublicKey,
     createdAt |-> c.createdAt, updatedAt |-> updatedAt]

\* UPDATE conversations SET lastMessage = ?, updatedAt = ? WHERE id = ?
withLastMessage(c, value, updatedAt) ==
    [id |-> c.id, title |-> c.title, recipientPublicKey |-> c.recipientPublicKey,
     lastMessage |-> value, createdAt |-> c.createdAt, updatedAt |-> updatedAt]

\* updateItem: UPDATE messages SET value = ? WHERE id = ?, and nothing else.
updateItem(convs, msgs, id, value) ==
    [conversations |-> convs,
     messages |-> [i \in 1..Len(msgs) |->
                      IF msgs[i].id = id THEN [msgs[i] EXCEPT !.value = value]
                      ELSE msgs[i]]]

\* deleteItem: the message's conversationId is read, the row deleted, and
\* the conversation's lastMessage set to the value of its latest remaining
\* message or to NULL (also for an empty value: lastMsg?.value || null).
deleteItem(convs, msgs, id, nowIso) ==
    LET found == {i \in 1..Len(msgs) : msgs[i].id = id}
        rest == SelectSeq(msgs, LAMBDA m : m.id # id)
    IN IF found = {}
       THEN [conversations |-> convs, messages |-> msgs]
       ELSE LET convId == msgs[CHOOSE i \in found : TRUE].conversationId
            IN [conversations |->
                    {IF c.id # convId THEN c
                     ELSE IF MessagesOf(rest, convId) = << >> \/ LatestValue(rest, convId) = ""
                          THEN withoutLastMessage(c, nowIso)
                          ELSE withLastMessage(c, LatestValue(rest, convId), nowIso)
                       : c \in convs},
                messages |-> rest]

\* deleteAllItems of the provider of conversation targetConvId: its messages
\* are deleted and its lastMessage is set to NULL.
deleteAllItems(convs, msgs, targetConvId, nowIso) ==
    [conversations |-> {IF c.id = targetConvId THEN withoutLastMessage(c, nowIso) ELSE c
                          : c \in convs},
     messages |-> SelectSeq(msgs, LAMBDA m : m.conversationId # targetConvId)]

\* The value updateItem is given.
EditedValue == "edited"

UpdateItem(id) ==
    /\ \E i \in 1..Len(messages) : messages[i].id = id
    /\ LET res == updateItem(conversations, messages, id, EditedValue)
       IN /\ conversations' = res.conversations
          /\ messages' = res.messages
    /\ lastDelete' = NoCall
    /\ UNCHANGED <<me, net, lastDecrypt, relayVars, pending, keyVars, sendVars,
                   shakeVars, countdownVars, wipeVars, foreignKeys, flowVars>>

DeleteItem(id) ==
    /\ \E i \in 1..Len(messages) : messages[i].id = id
    /\ LET res == deleteItem(conversations, messages, id, toISOString(3))
       IN /\ conversations' = res.conversations
          /\ messages' = res.messages
    /\ lastDelete' = NoCall
    /\ UNCHANGED <<me, net, lastDecrypt, relayVars, pending, keyVars, sendVars,
                   shakeVars, countdownVars, wipeVars, foreignKeys, flowVars>>

DeleteAllItems(convId) ==
    /\ convId \in ConversationIds(conversations)
    /\ LET res == deleteAllItems(conversations, messages, convId, toISOString(3))
       IN /\ conversations' = res.conversations
          /\ messages' = res.messages
    /\ lastDelete' = NoCall
    /\ UNCHANGED <<me, net, lastDecrypt, relayVars, pending, keyVars, sendVars,
                   shakeVars, countdownVars, wipeVars, foreignKeys, flowVars>>

NextMessages ==
    \/ \E peer \in Contacts : AddContact(peer, "ok")
    \/ PeerSends("alice", "bob", "hi", 1, 1)
    \/ Receive
    \/ \E convId \in ContactConversationIds : CreateItem(convId)
    \/ \E id \in 1..MaxItems : UpdateItem(id)
    \/ \E id \in 1..MaxItems : DeleteItem(id)
    \/ \E convId \in ContactConversationIds : DeleteAllItems(convId)

SpecMessages == InitStore /\ [][NextMessages]_vars

\* C37: each conversation's lastMessage is the value of its message with the
\* greatest id, or NULL when the conversation has no messages.
C37_LastMessageIsLatest ==
    \A c \in conversations :
        IF MessagesOf(messages, c.id) = << >>
        THEN "lastMessage" \notin DOMAIN c
        ELSE /\ "lastMessage" \in DOMAIN c
             /\ c.lastMessage = LatestValue(messages, c.id)

(***************************************************************************)
(* The messages screen: handleSendMessage on the device of alice.          *)
(***************************************************************************)
\* The conversations of the screen: the contact bob, and the conversation
\* made from a scanned string of 64 digits.
ComposePeers == {"bob", "hexDigits"}

ComposeConversationId(peer) ==
    IF peer = "hexDigits"
    THEN scannedConversationId(getKeys(me).publicKey, ScannedText(peer))
    ELSE generateConversationId(getKeys(me).publicKey, Identity(peer))

\* JSON.parse(recipientPublicKey) in encryptMessage; a conversation row of
\* the model that holds an identity holds it parsed.
recipientPublicKeyData(recipientPublicKey) ==
    IF JSONcanParse(recipientPublicKey) THEN JSONparse(recipientPublicKey)
    ELSE recipientPublicKey

\* encryptMessage throws: hexToBytes of a missing x25519 key.
encryptThrows(recipientPublicKey) ==
    Property(recipientPublicKeyData(recipientPublicKey), "x25519") = Undefined

\* A handleSendMessage that stores the message whatever sendMessage returned.
handleSendMessage_storesAnyway(convs, msgs, messageText, conversationId, threw, success, createdAt, fk) ==
    IF threw
    THEN [conversations |-> convs, messages |-> msgs]
    ELSE createItem(convs, msgs, trim(messageText), conversationId, createdAt, fk)

\* handleSendMessage after encryptMessage and sendMessage: the catch block
\* when encryptMessage threw, the return when sendMessage gave false, else
\* createItem.
handleSendMessage(convs, msgs, messageText, conversationId, threw, success, createdAt, fk) ==
    IF threw \/ ~success
    THEN [conversations |-> convs, messages |-> msgs]
    ELSE createItem(convs, msgs, trim(messageText), conversationId, createdAt, fk)

\* The conversations table of alice's device with both conversations.
ComposeConversations ==
    createScannedConversation(
        createConversation({}, getKeys("alice").publicKey, "Bob", Identity("bob"),
                           toISOString(1)),
        getKeys("alice").publicKey, "Digits", ScannedText("hexDigits"), toISOString(1))

\* The user sends messageText in the conversation with peer; an empty text
\* or a conversation that is not in the list returns at once.
HandleSendMessage(messageText, peer, draw, path, retryPath, regOk, expoOk) ==
    /\ Len(deliveries) < MaxDeliveries
    /\ NextItemId(messages) <= MaxItems
    /\ trim(messageText) # ""
    /\ ComposeConversationId(peer) \in ConversationIds(conversations)
    /\ LET conversationId == ComposeConversationId(peer)
           conversation == CHOOSE c \in conversations : c.id = conversationId
           threw == encryptThrows(conversation.recipientPublicKey)
           encryptedData == encryptMessage(getKeys(me), trim(messageText),
                                           recipientPublicKeyData(conversation.recipientPublicKey),
                                           now, draw)
           call == sendMessage(me, encryptedData.destination, encryptedData.message,
                               0, path, retryPath, regOk, expoOk)
           res == handleSendMessage(conversations, messages, messageText, conversationId,
                                    threw, IF threw THEN FALSE ELSE call.log.result,
                                    toISOString(now), foreignKeys)
       IN /\ conversations' = res.conversations
          /\ messages' = res.messages
          /\ recipients' = IF threw THEN recipients ELSE call.recipients
          /\ deliveries' = IF threw THEN deliveries ELSE call.deliveries
          /\ sendLog' =
                [text |-> messageText,
                 peer |-> peer,
                 threw |-> threw,
                 attempts |-> IF threw THEN << >> ELSE call.log.attempts,
                 registrations |-> IF threw THEN 0 ELSE call.log.registrations,
                 result |-> IF threw THEN NoCall ELSE [returned |-> call.log.result]]
    /\ lastSend' = NoCall
    /\ lastCleanup' = NoCall
    /\ UNCHANGED <<me, net, lastDecrypt, now, pending, keyVars, pushToken, deviceVars>>

\* The device of alice with its two conversations, with or without a stored
\* push token; bob is registered with the relay or is not.
InitCompose ==
    /\ me = "alice"
    /\ net = NoNotification
    /\ lastDecrypt = NoCall
    /\ conversations = ComposeConversations
    /\ messages = << >>
    /\ now = StartTime
    /\ recipients \in {{}, upsert({}, Identity("bob"), "ExponentPushToken[B]", StartTime)}
    /\ deliveries = << >>
    /\ lastSend = NoCall
    /\ lastCleanup = NoCall
    /\ pending = {}
    /\ generated = 0
    /\ returned = {}
    /\ lastKeys = NoCall
    /\ pushToken \in {NoToken, "ExponentPushToken[A]"}
    /\ sendLog = NoCall
    /\ InitDevice(0)

NextCompose ==
    \E messageText \in Messages, peer \in ComposePeers,
       path \in HttpPaths, retryPath \in HttpPaths,
       regOk \in BOOLEAN, expoOk \in BOOLEAN :
       HandleSendMessage(messageText, peer, 1, path, retryPath, regOk, expoOk)

SpecCompose == InitCompose /\ [][NextCompose]_vars

\* A step of handleSendMessage that reached encryptMessage.
HandledSend == sendLog' # NoCall /\ (sendLog' # sendLog \/ messages' # messages)

\* C38: handleSendMessage adds the message row, and sets lastMessage, only
\* after sendMessage returned true; when encryptMessage throws or
\* sendMessage returns false the tables stay as they were.
C38_StoredOnlyAfterSuccess ==
    [][HandledSend =>
          IF sendLog'.threw
          THEN messages' = messages /\ conversations' = conversations
          ELSE IF sendLog'.result.returned
          THEN /\ Len(messages') = Len(messages) + 1
               /\ messages'[Len(messages')].value = sendLog'.text
          ELSE messages' = messages /\ conversations' = conversations]_vars

\* A send that the relay refused twice, after one that was stored.
C38_Witness ==
    /\ sendLog # NoCall
    /\ ~sendLog.threw
    /\ ~sendLog.result.returned
    /\ Len(sendLog.attempts) = 2
    /\ Len(messages) = 1

\* C39: a call of sendMessage ends with true or false after at most two
\* posts to /send and at most one register.
C39_AtMostTwoPosts ==
    (sendLog # NoCall /\ ~sendLog.threw)
        => /\ sendLog.result.returned \in BOOLEAN
           /\ Len(sendLog.attempts) \in {1, 2}
           /\ sendLog.registrations \in {0, 1}
           /\ Len(sendLog.attempts) = 2 => sendLog.registrations = 1

\* A call that registered again, posted twice and still returned false.
C39_Witness ==
    /\ sendLog # NoCall
    /\ ~sendLog.threw
    /\ Len(sendLog.attempts) = 2
    /\ sendLog.attempts[1].status \in {401, 403}
    /\ sendLog.attempts[2].status # 200
    /\ sendLog.registrations = 1
    /\ sendLog.result.returned = FALSE

(***************************************************************************)
(* encryptMessage called again and again on the device of alice.  As with  *)
(* the other primitives, Crypto.getRandomBytes(12) is taken symbolically:  *)
(* it never returns the twelve bytes it returned before.                   *)
(***************************************************************************)
\* The values Crypto.getRandomBytes(12) returns.
RandomDraws == 1..3

\* What is kept of a call for the next one to be compared with.
Summary(log) ==
    IF log = NoCall THEN NoCall
    ELSE [text |-> log.text, peer |-> log.peer, draw |-> log.draw,
          timestamp |-> log.timestamp, nonce |-> log.nonce, encrypted |-> log.encrypted]

\* The draws made so far, and the nonces used so far with each recipient.
DrawsMade == IF sendLog = NoCall THEN {} ELSE sendLog.drawn

NoncesUsed ==
    IF sendLog = NoCall THEN {}
    ELSE sendLog.earlier \cup {[peer |-> sendLog.peer, nonce |-> sendLog.nonce]}

\* encryptMessage(messageText, recipientPublicKey) for a contact, while
\* Crypto.getRandomBytes(12) returns the bytes `draw`.
EncryptMessage(messageText, peer, draw) ==
    /\ draw \notin DrawsMade
    /\ LET encryptedData == encryptMessage(getKeys(me), messageText, Identity(peer),
                                           now, draw)
       IN sendLog' = [text |-> messageText,
                      peer |-> peer,
                      draw |-> draw,
                      timestamp |-> now,
                      nonce |-> encryptedData.message.nonce,
                      encrypted |-> encryptedData.message.encrypted,
                      previous |-> Summary(sendLog),
                      drawn |-> DrawsMade \cup {draw},
                      earlier |-> NoncesUsed]
    /\ UNCHANGED <<clientVars, relayVars, pending, keyVars, pushToken, deviceVars>>

\* The clock of the device at the calls.
NonceTimes == {StartTime, StartTime + 1}

NextNonce ==
    \/ \E messageText \in Messages, peer \in Contacts, draw \in RandomDraws :
          EncryptMessage(messageText, peer, draw)
    \/ \E t \in NonceTimes : Tick(t)

SpecNonce == InitCompose /\ [][NextNonce]_vars

\* Two calls of encryptMessage that followed each other with the same text
\* for the same recipient, under the same keys.
SamePlaintextAndKeys ==
    /\ sendLog # NoCall
    /\ sendLog.previous # NoCall
    /\ sendLog.text = sendLog.previous.text
    /\ sendLog.peer = sendLog.previous.peer

\* C33: two calls of encryptMessage with the same plaintext and the same
\* keys give different nonces and different ciphertexts, and no nonce is
\* used twice with the same recipient (the same shared secret).
C33_FreshNonces ==
    sendLog # NoCall
        => /\ [peer |-> sendLog.peer, nonce |-> sendLog.nonce] \notin sendLog.earlier
           /\ SamePlaintextAndKeys
                 => /\ sendLog.nonce # sendLog.previous.nonce
                    /\ sendLog.encrypted # sendLog.previous.encrypted

\* A third call for the same recipient, with the text and in the millisecond
\* of the second.
C33_Witness ==
    /\ SamePlaintextAndKeys
    /\ sendLog.timestamp = sendLog.previous.timestamp
    /\ Cardinality(sendLog.earlier) = 2
    /\ \A e \in sendLog.earlier : e.peer = sendLog.peer

(***************************************************************************)
(* The relay's directory while the device replaces or wipes its key pair.  *)
(***************************************************************************)
\* The device of bob, registered at the relay under the identity it has at
\* the start.  register stores the push token after the relay answered; the
\* token is in SecureStore, or the write that stores it failed.
DeviceToken == "ExponentPushToken[A]"

OldRecord == [recipient_id |-> Identity("bob"),
              expo_push_token |-> DeviceToken,
              updated_at |-> CURRENT_TIMESTAMP(StartTime)]

\* AppContent when ten shakes, one every UPDATE_INTERVAL from the mount on,
\* have just opened the countdown: handleShake has reset its counter, the
\* effect of useShakeDetection has subscribed the second handleShake beside
\* the first, whose subscription its cleanup did not capture, and
\* EmergencyCountdown has started its timer.
CountdownShown ==
    /\ deviceTime = DeviceStart + SHAKE_COUNT_THRESHOLD * UPDATE_INTERVAL
    /\ shakeCount = 0
    /\ lastShakeTime = DeviceStart + SHAKE_COUNT_THRESHOLD * UPDATE_INTERVAL
    /\ shakeTimes = [i \in 1..SHAKE_COUNT_THRESHOLD |-> DeviceStart + i * UPDATE_INTERVAL]
    /\ sinceReset = 0
    /\ subscribed = {FALSE, TRUE}
    /\ subscription = {TRUE}
    /\ captured = {FALSE}
    /\ showEmergency = TRUE
    /\ countdown = countdownEffect(TRUE, COUNTDOWN_START, deviceTime).countdown
    /\ interval = countdownEffect(TRUE, COUNTDOWN_START, deviceTime).interval
    /\ activations = <<[cancelled |-> FALSE, completed |-> FALSE, left |-> COUNTDOWN_START]>>
    /\ completing = {}
    /\ wipeLog = << >>
    /\ listener = NoCall
    /\ foreignKeys = TRUE
    /\ lastDelete = NoCall
    /\ regenerating = NoCall
    /\ secureStore = [publicKey |-> 0, privateKey |-> 0]
    /\ keyCalls = {}
    /\ lastScan = NoCall

\* The profile screen is open, or the countdown of the emergency mode.
InitReRegister ==
    /\ me = "bob"
    /\ net = NoNotification
    /\ lastDecrypt = NoCall
    /\ conversations = {}
    /\ messages = << >>
    /\ now = StartTime
    /\ recipients = {OldRecord}
    /\ deliveries = << >>
    /\ lastSend = NoCall
    /\ lastCleanup = NoCall
    /\ pending = {}
    /\ generated = 0
    /\ returned = {}
    /\ lastKeys = NoCall
    /\ pushToken \in {NoToken, DeviceToken}
    /\ sendLog = NoCall
    /\ InitDevice(DeviceStart) \/ CountdownShown

NextReRegister ==
    \/ RegenerateDelete
    \/ RegenerateStore
    \/ \E regOk \in BOOLEAN : RegenerateRegister(regOk)
    \/ CountdownTick
    \/ \E n \in 1..Len(activations) : WipeClearKeys(n)
    \/ \E t \in DirTimePoints : Tick(t)
    \/ \E k \in CleanupKeyNames : Cleanup(k)

SpecReRegister == InitReRegister /\ [][NextReRegister]_vars

\* A step of handleRegenerateKeys or of handleComplete.
RegenerationOrWipeStep == regenerating' # regenerating \/ wipeLog' # wipeLog

\* A /cleanup that carried the configured key.
CleanupRan == lastCleanup' # NoCall /\ lastCleanup'.status = 200

====
